---- MODULE Spec2Model ----
(***************************************************************************)
(* I2S audio subsystem of the ESP32 voice firmware: the AudioManager mode  *)
(* controller (startRecording / startPlayback / stop / read / write), the  *)
(* microphone sample decoding of readRecordedData and its zero-read health *)
(* monitor with the automatic I2S restart; and, around it, the main sketch *)
(* esp32_voice_lte.ino (setup, loop, transitionTo) with the ButtonHandler  *)
(* it polls, and the recording loop of the NFC + audio test firmware.      *)
(*                                                                         *)
(* Two builds of audio_manager.cpp are modelled side by side:              *)
(*   "shared_port" - microphone and amplifier share I2S_NUM_0, three-step  *)
(*                   decoding chain with clamp;                            *)
(*   "two_port"    - microphone on I2S_NUM_0, amplifier on I2S_NUM_1,      *)
(*                   left-channel extraction with the shift-by-8 decode.   *)
(* A 32-bit raw word is the pair <<hi, lo>> of its 16-bit halves.          *)
(***************************************************************************)
EXTENDS Integers, Sequences, FiniteSets, TLC

VARIABLES
    variant,               \* which build of audio_manager.cpp
    initialized,           \* AudioManager::initialized
    currentMode,           \* AudioManager::currentMode
    currentSampleRate,     \* AudioManager::currentSampleRate
    driver,                \* ESP-IDF driver: port -> installed configuration
    consecutiveZeroReads,  \* static in readRecordedData
    totalReads,            \* static in readRecordedData
    zeroReads,             \* static in readRecordedData
    loggedStuckState,      \* static in readRecordedData (one-time warning)
    sessionZeroRun,        \* history: all-zero reads in a row in this session
    op,                    \* history: the last call and its inputs
    pre,                   \* history: the state the last call started from
    ret,                   \* history: what the last call returned
    calls,                 \* history: driver / delay calls of the last call
    peak,                  \* history: most drivers installed during the call
    outBuf,                \* history: PCM samples the last read wrote
    raw,                   \* decoder bench: the raw word under test
    decoder,               \* decoder bench: which decode is applied
    pcm,                   \* decoder bench: the samples written so far
    millis,                \* Arduino millis(): milliseconds since boot
    button,                \* ButtonHandler: the fields of the object
    sketch,                \* which .ino runs: "none" until one is flashed
    currentState,          \* esp32_voice_lte.ino: AppState currentState
    previousState,         \* esp32_voice_lte.ino: AppState previousState
    currentAction,         \* esp32_voice_lte.ino: ActionType currentAction
    lastError,             \* esp32_voice_lte.ino: ErrorCode lastError
    stateStartTime,        \* esp32_voice_lte.ino: stateStartTime
    nfcReadTimeout,        \* esp32_voice_lte.ino: nfcReadTimeout
    audioDataLength,       \* esp32_voice_lte.ino: audioDataLength
    recordingStartTime,    \* both sketches: recordingStartTime
    recordingLength,       \* esp32_voice_lte.ino: bytes recorded so far
    recordedSamples,       \* test firmware: samples recorded so far
    retryCount,            \* esp32_voice_lte.ino: retryCount
    press,                 \* history: the events of the current / last press
    steady,                \* history: the run of equal raw readings so far
    visit,                 \* history: what happened in this visit to a state
    store,                 \* history: the buffer writes of the last loop()
    lastNFCCheck,          \* test firmware: static in case STATE_IDLE
    nfcReadTime,           \* test firmware: static in case STATE_READING_NFC
    playbackIndex,         \* test firmware: static in case STATE_PLAYING
    playbackStarted        \* test firmware: static in case STATE_PLAYING

vars == <<variant, initialized, currentMode, currentSampleRate, driver,
          consecutiveZeroReads, totalReads, zeroReads, loggedStuckState,
          sessionZeroRun, op, pre, ret, calls, peak, outBuf, raw, decoder, pcm,
          millis, button, sketch, currentState, previousState, currentAction,
          lastError, stateStartTime, nfcReadTimeout, audioDataLength,
          recordingStartTime, recordingLength, recordedSamples, retryCount,
          press, steady, visit, store, lastNFCCheck, nfcReadTime,
          playbackIndex, playbackStarted>>

ctlVars == <<variant, initialized, currentMode, currentSampleRate, driver,
             consecutiveZeroReads, totalReads, zeroReads, loggedStuckState,
             sessionZeroRun, op, pre, ret, calls, peak, outBuf>>

benchVars == <<raw, decoder, pcm>>

boardVars == <<millis, button, press, steady>>

sketchVars == <<sketch, currentState, previousState, currentAction, lastError,
                stateStartTime, nfcReadTimeout, audioDataLength,
                recordingStartTime, recordingLength, recordedSamples,
                retryCount, visit, store, lastNFCCheck, nfcReadTime,
                playbackIndex, playbackStarted>>

testVars == <<lastNFCCheck, nfcReadTime, playbackIndex, playbackStarted>>

(***************************************************************************)
(* Enumerations and program constants                                      *)
(***************************************************************************)
AUDIO_MODE_NONE == "AUDIO_MODE_NONE"
AUDIO_MODE_PLAYBACK == "AUDIO_MODE_PLAYBACK"
AUDIO_MODE_RECORDING == "AUDIO_MODE_RECORDING"
AudioMode == {AUDIO_MODE_NONE, AUDIO_MODE_PLAYBACK, AUDIO_MODE_RECORDING}

I2S_NUM_0 == 0
I2S_NUM_1 == 1
Ports == {I2S_NUM_0, I2S_NUM_1}

SAMPLE_RATE == 16000
I2sBufferWords == 256
ClassifyWindow == 10
HardThreshold == 50
SoftThreshold == 10

Variants == {"shared_port", "two_port"}

(***************************************************************************)
(* Bounds of the explored environment                                      *)
(***************************************************************************)
ShortReads == 4
MaxReads == 52
MaxNonZeroReads == 1
AltRate == 8000
MaxMillis == 1200
SeenLoops == 2

Rates == {SAMPLE_RATE, AltRate}

(***************************************************************************)
(* 32-bit words and C integer conversions                                  *)
(***************************************************************************)
Min(a, b) == IF a < b THEN a ELSE b
Max(a, b) == IF a > b THEN a ELSE b

Zero == <<0, 0>>
One == <<0, 1>>

\* (int16_t)x : keep the low 16 bits, two's complement
ToInt16(x) == ((x + 32768) % 65536) - 32768

\* sample32 >> 16
Shr16(w) == w[1]

\* sample32 >> 14
Shr14(w) == w[1] * 4 + (w[2] \div 16384)

\* sample32 & 0x3FFFF
Low18(w) == (w[1] % 4) * 65536 + w[2]

\* if (x & 0x20000) x |= 0xFFFC0000;   on an int32_t holding 18 bits
SignExtend18(x) == IF (x \div 131072) % 2 = 1 THEN x - 262144 ELSE x

\* arithmetic x >> 2 on int32_t
Sar2(x) == x \div 4

Clamp16(x) == IF x > 32767 THEN 32767 ELSE IF x < -32768 THEN -32768 ELSE x

(***************************************************************************)
(* Sample decoding (pure functions of one raw word)                        *)
(***************************************************************************)
\* Method 1: audioData = (int32_t)((int16_t)(sample32 >> 16));
Method1(w) == ToInt16(Shr16(w))

\* Method 2: 18-bit field from bit 14, sign-extended, >> 2, cast to int16_t
Method2(w) == ToInt16(Sar2(SignExtend18(Shr14(w))))

\* variant of Method 3 with a slip: the 18-bit value is not scaled down
Method3_NoScale(w) == SignExtend18(Low18(w))

\* Method 3: low 18 bits, sign-extended, >> 2
Method3(w) == Sar2(SignExtend18(Low18(w)))

\* variant of ExtractAudioData with a slip: bit 0 is extracted inside the
\* one-time warning block, so only while the warning was not yet given
ExtractAudioData_OnceOnly(w) ==
    IF w = Zero THEN 0
    ELSE IF w = One THEN (IF loggedStuckState THEN Method1(w) ELSE 1)
    ELSE LET a1 == Method1(w)
             a2 == IF a1 = 0 /\ w # Zero THEN Method2(w) ELSE a1
             a3 == IF a2 = 0 /\ w # Zero THEN Method3(w) ELSE a2
         IN  a3

\* the value audioData holds before the clamp, shared-port build
ExtractAudioData(w) ==
    IF w = Zero THEN 0
    ELSE IF w = One THEN (IF w[2] % 2 = 1 THEN 1 ELSE 0)
    ELSE LET a1 == Method1(w)
             a2 == IF a1 = 0 /\ w # Zero THEN Method2(w) ELSE a1
             a3 == IF a2 = 0 /\ w # Zero THEN Method3(w) ELSE a2
         IN  a3

\* shared-port build: extraction chain, clamp, store as int16_t
DecodeChain(w) == ToInt16(Clamp16(ExtractAudioData(w)))

\* variant of DecodeShift8 with a slip: the shifted word is not narrowed
DecodeShift8_Wide(w) == ToInt16(w[1]) * 256 + (w[2] \div 256)

\* two-port build: int16_t pcm = (int16_t)((int32_t)raw >> 8);
DecodeShift8(w) == ToInt16(ToInt16(w[1]) * 256 + (w[2] \div 256))

\* first build (no special cases): upper 16 bits, clamp
DecodeUpper16(w) == ToInt16(Clamp16(Method1(w)))

Decoders == {"chain", "shift8", "upper16"}

Decode(d, w) ==
    CASE d = "chain" -> DecodeChain(w)
      [] d = "shift8" -> DecodeShift8(w)
      [] d = "upper16" -> DecodeUpper16(w)

DecoderOf(v) == IF v = "shared_port" THEN "chain" ELSE "shift8"

RECURSIVE ConvertAll(_, _)
\* shared-port build: outputBuffer[i] = decode(i2sBuffer[i]) for every i
ConvertAll(d, f) ==
    IF f = <<>> THEN <<>> ELSE <<Decode(d, Head(f))>> \o ConvertAll(d, Tail(f))

\* variant of ConvertLeft with a slip: the loop steps by one slot
ConvertLeft_EverySlot(d, f) == ConvertAll(d, f)

RECURSIVE ConvertLeft(_, _)
\* two-port build: for (i = 0; i < samplesRead; i += 2) output decode(raw[i])
ConvertLeft(d, f) ==
    IF f = <<>> THEN <<>>
    ELSE <<Decode(d, Head(f))>> \o
         (IF Len(f) <= 2 THEN <<>> ELSE ConvertLeft(d, Tail(Tail(f))))

Convert(v, f) ==
    IF v = "shared_port" THEN ConvertAll(DecoderOf(v), f)
    ELSE ConvertLeft(DecoderOf(v), f)

\* variant of allZerosThisRead with a slip: the degenerate word 0x00000001
\* passes for no data as well
allZerosThisRead_Degenerate(f) ==
    \A i \in 1..Min(Len(f), ClassifyWindow) : f[i] = Zero \/ f[i] = One

\* bool allZerosThisRead: only the first 10 words of the read are examined
allZerosThisRead(f) ==
    \A i \in 1..Min(Len(f), ClassifyWindow) : f[i] = Zero

\* ticks_to_wait of the i2s_read of readRecordedData: 0, non-blocking
ReadTimeout_Wait == 100

ReadTimeout == 0

\* variant of samplesToRead with a slip: one sample asked for each byte of
\* the caller's buffer
samplesToRead_PerByte(maxLength) == Min(maxLength, I2sBufferWords)

\* samplesToRead = min(maxLength / sizeof(int16_t), 256)
samplesToRead(maxLength) == Min(maxLength \div 2, I2sBufferWords)

(***************************************************************************)
(* ESP-IDF I2S driver and delay(), as seen by the manager.  A controller   *)
(* value c carries mode, rate, the installed drivers and the trace of the  *)
(* calls made so far in the running operation.                             *)
(***************************************************************************)
NoDriver == [p \in Ports |-> "none"]

Ev(f, port, wait) == [f |-> f, port |-> port, wait |-> wait]

Installed(d) == {p \in Ports : d[p] # "none"}

Log(c, e) == [c EXCEPT !.calls = Append(@, e)]

\* i2s_driver_install: fails when the caller's outcome says so, and on a
\* port that already has a driver
i2s_driver_install(c, port, cfg, ok) ==
    LET c1 == Log(c, Ev("i2s_driver_install", port, 0))
        done == ok /\ c.drv[port] = "none"
        d2 == [c.drv EXCEPT ![port] = cfg]
    IN  IF done
        THEN [c1 EXCEPT !.drv = d2,
                        !.peak = Max(@, Cardinality(Installed(d2))),
                        !.ok = TRUE]
        ELSE [c1 EXCEPT !.ok = FALSE]

i2s_driver_uninstall(c, port) ==
    [Log(c, Ev("i2s_driver_uninstall", port, 0)) EXCEPT !.drv[port] = "none"]

PortOf(v, mode) ==
    IF v = "shared_port" THEN I2S_NUM_0
    ELSE IF mode = AUDIO_MODE_RECORDING THEN I2S_NUM_0 ELSE I2S_NUM_1

ModeConfig(mode) == IF mode = AUDIO_MODE_RECORDING THEN "rx" ELSE "tx"

DriverOutcomes == {"ok", "install_fails", "set_pin_fails", "start_fails"}

(***************************************************************************)
(* AudioManager private helpers                                            *)
(***************************************************************************)
\* variants of shutdownI2S with a slip: the driver is left installed; the
\* mode is left as it was
shutdownI2S_KeepDriver(v, c) ==
    IF c.mode # AUDIO_MODE_NONE
    THEN [c EXCEPT !.mode = AUDIO_MODE_NONE]
    ELSE c

shutdownI2S_KeepMode(v, c) ==
    IF c.mode # AUDIO_MODE_NONE
    THEN i2s_driver_uninstall(c, PortOf(v, c.mode))
    ELSE c

\* variant of shutdownI2S with a slip: the two-port build uninstalls the
\* one port of the shared-port build
shutdownI2S_OnePort(v, c) ==
    IF c.mode # AUDIO_MODE_NONE
    THEN [i2s_driver_uninstall(c, I2S_NUM_0)
            EXCEPT !.mode = AUDIO_MODE_NONE]
    ELSE c

shutdownI2S(v, c) ==
    IF c.mode # AUDIO_MODE_NONE
    THEN [i2s_driver_uninstall(c, PortOf(v, c.mode))
            EXCEPT !.mode = AUDIO_MODE_NONE]
    ELSE c

\* variants of reconfigureI2S with a slip: no teardown of the active mode;
\* no uninstall when a later step fails
reconfigureI2S_NoTeardown(v, c, newMode, sampleRate, outcome) ==
    LET port == PortOf(v, newMode)
        c1 == i2s_driver_install(c, port, ModeConfig(newMode),
                                 outcome # "install_fails")
        c2 == Log(c1, Ev("i2s_set_pin", port, 0))
        c3 == Log(c2, Ev("i2s_start", port, 0))
        c4 == Log(c3, Ev("i2s_read", port, 100))
        c5 == IF newMode = AUDIO_MODE_RECORDING THEN c4 ELSE c2
    IN  IF ~c1.ok THEN c1
        ELSE IF outcome = "set_pin_fails"
        THEN [i2s_driver_uninstall(c2, port) EXCEPT !.ok = FALSE]
        ELSE IF newMode = AUDIO_MODE_RECORDING /\ outcome = "start_fails"
        THEN [i2s_driver_uninstall(c3, port) EXCEPT !.ok = FALSE]
        ELSE [Log(c5, Ev("delay", -1, 200))
                EXCEPT !.mode = newMode, !.rate = sampleRate, !.ok = TRUE]

reconfigureI2S_NoCleanup(v, c, newMode, sampleRate, outcome) ==
    LET c0 == IF c.mode # AUDIO_MODE_NONE THEN shutdownI2S(v, c) ELSE c
        port == PortOf(v, newMode)
        c1 == i2s_driver_install(c0, port, ModeConfig(newMode),
                                 outcome # "install_fails")
        c2 == Log(c1, Ev("i2s_set_pin", port, 0))
        c3 == Log(c2, Ev("i2s_start", port, 0))
        c4 == Log(c3, Ev("i2s_read", port, 100))
        c5 == IF newMode = AUDIO_MODE_RECORDING THEN c4 ELSE c2
    IN  IF ~c1.ok THEN c1
        ELSE IF outcome = "set_pin_fails"
        THEN [c2 EXCEPT !.ok = FALSE]
        ELSE IF newMode = AUDIO_MODE_RECORDING /\ outcome = "start_fails"
        THEN [c3 EXCEPT !.ok = FALSE]
        ELSE [Log(c5, Ev("delay", -1, 200))
                EXCEPT !.mode = newMode, !.rate = sampleRate, !.ok = TRUE]

\* variant of reconfigureI2S with a slip: the rate is stored before the
\* driver is installed
reconfigureI2S_RateFirst(v, c, newMode, sampleRate, outcome) ==
    LET c0 == IF c.mode # AUDIO_MODE_NONE THEN shutdownI2S(v, c) ELSE c
        port == PortOf(v, newMode)
        c1 == i2s_driver_install([c0 EXCEPT !.rate = sampleRate], port,
                                 ModeConfig(newMode),
                                 outcome # "install_fails")
        c2 == Log(c1, Ev("i2s_set_pin", port, 0))
        c3 == Log(c2, Ev("i2s_start", port, 0))
        c4 == Log(c3, Ev("i2s_read", port, 100))
        c5 == IF newMode = AUDIO_MODE_RECORDING THEN c4 ELSE c2
    IN  IF ~c1.ok THEN c1
        ELSE IF outcome = "set_pin_fails"
        THEN [i2s_driver_uninstall(c2, port) EXCEPT !.ok = FALSE]
        ELSE IF newMode = AUDIO_MODE_RECORDING /\ outcome = "start_fails"
        THEN [i2s_driver_uninstall(c3, port) EXCEPT !.ok = FALSE]
        ELSE [Log(c5, Ev("delay", -1, 200))
                EXCEPT !.mode = newMode, !.ok = TRUE]

\* returns the controller value with .ok = the function's return value
reconfigureI2S(v, c, newMode, sampleRate, outcome) ==
    LET c0 == IF c.mode # AUDIO_MODE_NONE THEN shutdownI2S(v, c) ELSE c
        port == PortOf(v, newMode)
        c1 == i2s_driver_install(c0, port, ModeConfig(newMode),
                                 outcome # "install_fails")
        c2 == Log(c1, Ev("i2s_set_pin", port, 0))
        c3 == Log(c2, Ev("i2s_start", port, 0))
        c4 == Log(c3, Ev("i2s_read", port, 100))
        c5 == IF newMode = AUDIO_MODE_RECORDING THEN c4 ELSE c2
    IN  IF newMode \notin {AUDIO_MODE_PLAYBACK, AUDIO_MODE_RECORDING}
        THEN [c0 EXCEPT !.ok = FALSE]
        ELSE IF ~c1.ok THEN c1
        ELSE IF outcome = "set_pin_fails"
        THEN [i2s_driver_uninstall(c2, port) EXCEPT !.ok = FALSE]
        ELSE IF newMode = AUDIO_MODE_RECORDING /\ outcome = "start_fails"
        THEN [i2s_driver_uninstall(c3, port) EXCEPT !.ok = FALSE]
        ELSE [Log(c5, Ev("delay", -1, 200))
                EXCEPT !.mode = newMode, !.rate = sampleRate, !.ok = TRUE]

(***************************************************************************)
(* Inputs of the explored environment                                      *)
(***************************************************************************)
W1234 == <<4660, 0>>
W5678 == <<22136, 0>>

Zeros(n) == [i \in 1..n |-> Zero]

\* what one i2s_read may deliver: nothing, all-zero frames, the stuck
\* 0x00000001 signature, audio, a zero first slot followed by audio, and a
\* read whose only non-zero word lies behind the first ten
Frames ==
    { <<>>,
      <<Zero>>,
      Zeros(4),
      <<W1234, Zero, W5678, Zero>>,
      <<One, One>>,
      <<Zero, <<65535, 65535>>, <<0, 32768>>>>,
      Zeros(ClassifyWindow) \o <<<<32768, 256>>>> }

ReadLengths == {1, 8, 24}
WriteLengths == {0, 4}

\* (TickType_t)0xffffffff, wait for ever: written -1
portMAX_DELAY == -1

ESP_OK == "ESP_OK"
ESP_FAIL == "ESP_FAIL"

(***************************************************************************)
(* State seen as a controller value, and the snapshot kept as history      *)
(***************************************************************************)
Ctl ==
    [mode |-> currentMode, rate |-> currentSampleRate, drv |-> driver,
     calls |-> <<>>, peak |-> Cardinality(Installed(driver)), ok |-> TRUE]

Snapshot ==
    [mode |-> currentMode, rate |-> currentSampleRate, drv |-> driver,
     consec |-> consecutiveZeroReads, total |-> totalReads,
     zero |-> zeroReads, stuck |-> loggedStuckState,
     run |-> sessionZeroRun]

NoArgs == [name |-> "none", prev |-> "none", rate |-> 0, outcome |-> "ok",
           maxLength |-> 0, result |-> ESP_OK, frame |-> <<>>, length |-> 0]

\* a call, with the name of the call made before it
Op(name) == [NoArgs EXCEPT !.name = name, !.prev = op.name]

\* commits a controller value and the history of the call
Commit(c, o, r, out) ==
    /\ currentMode' = c.mode
    /\ currentSampleRate' = c.rate
    /\ driver' = c.drv
    /\ calls' = c.calls
    /\ peak' = c.peak
    /\ op' = o
    /\ pre' = Snapshot
    /\ ret' = r
    /\ outBuf' = out
    /\ UNCHANGED <<variant, benchVars, boardVars, sketchVars>>

TrueAllZero(f) == \A i \in 1..Len(f) : f[i] = Zero

(***************************************************************************)
(* Operations of AudioManager                                              *)
(***************************************************************************)
\* setup() calls init once, on the zero-initialised global object
init ==
    /\ ~initialized
    /\ initialized' = TRUE
    /\ Commit([Ctl EXCEPT !.mode = AUDIO_MODE_NONE, !.rate = SAMPLE_RATE],
              Op("init"), TRUE, <<>>)
    /\ UNCHANGED <<consecutiveZeroReads, totalReads, zeroReads,
                   sessionZeroRun,
                   loggedStuckState>>

startPlayback(sampleRate, outcome) ==
    LET o == [Op("startPlayback") EXCEPT !.rate = sampleRate,
                                         !.outcome = outcome]
        c == reconfigureI2S(variant, Ctl, AUDIO_MODE_PLAYBACK, sampleRate,
                            outcome)
    IN  /\ IF ~initialized
           THEN Commit(Ctl, o, FALSE, <<>>)
           ELSE Commit(c, o, c.ok, <<>>)
        /\ UNCHANGED <<initialized, consecutiveZeroReads, totalReads,
                       zeroReads, sessionZeroRun,
                   loggedStuckState>>

\* variant of writePlaybackData with a slip: the mode is not checked
writePlaybackData_NoGate(length, result) ==
    LET o == [Op("writePlaybackData") EXCEPT !.length = length,
                                             !.result = result]
        c == Log(Ctl, Ev("i2s_write", PortOf(variant, AUDIO_MODE_PLAYBACK),
                         portMAX_DELAY))
    IN  /\ Commit(c, o, IF result # ESP_OK THEN 0 ELSE length, <<>>)
        /\ UNCHANGED <<initialized, consecutiveZeroReads, totalReads,
                       zeroReads, sessionZeroRun,
                   loggedStuckState>>

writePlaybackData(length, result) ==
    LET o == [Op("writePlaybackData") EXCEPT !.length = length,
                                             !.result = result]
        c == Log(Ctl, Ev("i2s_write", PortOf(variant, AUDIO_MODE_PLAYBACK),
                         portMAX_DELAY))
    IN  /\ IF currentMode # AUDIO_MODE_PLAYBACK
           THEN Commit(Ctl, o, 0, <<>>)
           ELSE Commit(c, o, IF result # ESP_OK THEN 0 ELSE length, <<>>)
        /\ UNCHANGED <<initialized, consecutiveZeroReads, totalReads,
                       zeroReads, sessionZeroRun,
                   loggedStuckState>>

stopPlayback ==
    LET c == Log(Ctl, Ev("i2s_zero_dma_buffer",
                         PortOf(variant, AUDIO_MODE_PLAYBACK), 0))
    IN  /\ IF currentMode = AUDIO_MODE_PLAYBACK
           THEN Commit(shutdownI2S(variant, c), Op("stopPlayback"), "void",
                       <<>>)
           ELSE Commit(Ctl, Op("stopPlayback"), "void", <<>>)
        /\ UNCHANGED <<initialized, consecutiveZeroReads, totalReads,
                       zeroReads, sessionZeroRun,
                   loggedStuckState>>

startRecording(sampleRate, outcome) ==
    LET o == [Op("startRecording") EXCEPT !.rate = sampleRate,
                                          !.outcome = outcome]
        c == reconfigureI2S(variant, Ctl, AUDIO_MODE_RECORDING, sampleRate,
                            outcome)
        port == PortOf(variant, AUDIO_MODE_RECORDING)
        c1 == Log(Log(Log(c, Ev("i2s_zero_dma_buffer", port, 0)),
                      Ev("i2s_read", port, 0)),
                  Ev("delay", -1, 500))
    IN  /\ IF ~initialized
           THEN Commit(Ctl, o, FALSE, <<>>) /\ UNCHANGED sessionZeroRun
           ELSE IF ~c.ok
           THEN Commit(c, o, FALSE, <<>>) /\ UNCHANGED sessionZeroRun
           ELSE Commit(c1, o, TRUE, <<>>) /\ sessionZeroRun' = 0
        /\ UNCHANGED <<initialized, consecutiveZeroReads, totalReads,
                       zeroReads, loggedStuckState>>

stopRecording ==
    /\ IF currentMode = AUDIO_MODE_RECORDING
       THEN Commit(shutdownI2S(variant, Ctl), Op("stopRecording"), "void",
                   <<>>)
       ELSE Commit(Ctl, Op("stopRecording"), "void", <<>>)
    /\ UNCHANGED <<initialized, consecutiveZeroReads, totalReads, zeroReads,
                   sessionZeroRun,
                   loggedStuckState>>

\* the conversion loop of the shared-port build meets a 0x00000001 word and
\* raises the one-time warning
SeesStuckWord(f) ==
    variant = "shared_port" /\ \E i \in 1..Len(f) : f[i] = One

\* consecutiveZeroReads after the classification of one read with data
\* (before the recovery, which clears it again when the restart succeeds)
UpdateStreak_NoReset(consec, allZeros) ==
    IF allZeros THEN consec + 1 ELSE consec

UpdateStreak(consec, allZeros) ==
    IF allZeros THEN consec + 1 ELSE 0

\* the warnings of the health check for a read classified allZeros that
\* found the streak at consec: the soft warning, or the hard warning with
\* the announcement of the restart
Warning(consec, allZeros) ==
    IF ~allZeros THEN "none"
    ELSE IF consec + 1 = SoftThreshold THEN "soft"
    ELSE IF consec + 1 = HardThreshold THEN "hard"
    ELSE "none"

\* variant of the recovery with a slip: the driver is uninstalled directly,
\* without shutdownI2S, so currentMode still names the mode
RestartI2S_RawUninstall(c, outcome) ==
    IF c.mode = AUDIO_MODE_RECORDING
    THEN LET savedRate == c.rate
             c1 == Log(i2s_driver_uninstall(c, PortOf(variant, c.mode)),
                       Ev("delay", -1, 100))
         IN  reconfigureI2S(variant, c1, AUDIO_MODE_RECORDING, savedRate,
                            outcome)
    ELSE [c EXCEPT !.ok = FALSE]

\* variant of the recovery with a slip: when the restart fails the mode is
\* put back to the one the read was called in
RestartI2S_ModeRestored(c, outcome) ==
    IF c.mode = AUDIO_MODE_RECORDING
    THEN LET savedRate == c.rate
             c1 == Log(shutdownI2S(variant, c), Ev("delay", -1, 100))
             c2 == reconfigureI2S(variant, c1, AUDIO_MODE_RECORDING,
                                  savedRate, outcome)
         IN  IF c2.ok THEN c2 ELSE [c2 EXCEPT !.mode = c.mode]
    ELSE [c EXCEPT !.ok = FALSE]

\* the automatic recovery of the 50th consecutive zero read
RestartI2S(c, outcome) ==
    IF c.mode = AUDIO_MODE_RECORDING
    THEN LET savedRate == c.rate
             c1 == Log(shutdownI2S(variant, c), Ev("delay", -1, 100))
         IN  reconfigureI2S(variant, c1, AUDIO_MODE_RECORDING, savedRate,
                            outcome)
    ELSE [c EXCEPT !.ok = FALSE]

\* variant of readRecordedData with a slip: a read of 0 bytes is not
\* returned early and reaches the health monitor
readRecordedData_CountsEmpty(maxLength, result, frame, outcome) ==
    LET o == [Op("readRecordedData") EXCEPT !.maxLength = maxLength,
                                            !.result = result,
                                            !.frame = frame,
                                            !.outcome = outcome]
        c == Log(Ctl, Ev("i2s_read", PortOf(variant, AUDIO_MODE_RECORDING),
                         ReadTimeout))
        out == Convert(variant, frame)
        allZeros == allZerosThisRead(frame)
        consec1 == UpdateStreak(consecutiveZeroReads, allZeros)
        restart == allZeros /\ consec1 = HardThreshold
        c2 == IF restart THEN RestartI2S(c, outcome) ELSE c
        attempted == restart /\ c.mode = AUDIO_MODE_RECORDING
    IN  /\ Len(frame) <= samplesToRead(maxLength)
        /\ IF currentMode # AUDIO_MODE_RECORDING
           THEN /\ Commit(Ctl, o, 0, <<>>)
                /\ UNCHANGED <<consecutiveZeroReads, totalReads, zeroReads,
                               sessionZeroRun,
                   loggedStuckState>>
           ELSE IF result # ESP_OK
           THEN /\ Commit(c, o, 0, <<>>)
                /\ UNCHANGED <<consecutiveZeroReads, totalReads, zeroReads,
                               sessionZeroRun,
                   loggedStuckState>>
           ELSE /\ totalReads' = totalReads + 1
                /\ loggedStuckState' = (loggedStuckState \/ SeesStuckWord(frame))
                /\ zeroReads' = IF allZeros THEN zeroReads + 1 ELSE zeroReads
                /\ consecutiveZeroReads' =
                       IF attempted /\ c2.ok THEN 0 ELSE consec1
                /\ sessionZeroRun' =
                       IF attempted THEN 0
                       ELSE IF TrueAllZero(frame) THEN sessionZeroRun + 1
                       ELSE 0
                /\ Commit(c2, o, 2 * Len(out), out)
        /\ UNCHANGED initialized

readRecordedData(maxLength, result, frame, outcome) ==
    LET o == [Op("readRecordedData") EXCEPT !.maxLength = maxLength,
                                            !.result = result,
                                            !.frame = frame,
                                            !.outcome = outcome]
        c == Log(Ctl, Ev("i2s_read", PortOf(variant, AUDIO_MODE_RECORDING),
                         ReadTimeout))
        out == Convert(variant, frame)
        allZeros == allZerosThisRead(frame)
        consec1 == UpdateStreak(consecutiveZeroReads, allZeros)
        restart == allZeros /\ consec1 = HardThreshold
        c2 == IF restart THEN RestartI2S(c, outcome) ELSE c
        attempted == restart /\ c.mode = AUDIO_MODE_RECORDING
    IN  /\ Len(frame) <= samplesToRead(maxLength)
        /\ IF currentMode # AUDIO_MODE_RECORDING
           THEN /\ Commit(Ctl, o, 0, <<>>)
                /\ UNCHANGED <<consecutiveZeroReads, totalReads, zeroReads,
                               sessionZeroRun,
                   loggedStuckState>>
           ELSE IF result # ESP_OK \/ frame = <<>>
           THEN /\ Commit(c, o, 0, <<>>)
                /\ UNCHANGED <<consecutiveZeroReads, totalReads, zeroReads,
                               sessionZeroRun,
                   loggedStuckState>>
           ELSE /\ totalReads' = totalReads + 1
                /\ loggedStuckState' = (loggedStuckState \/ SeesStuckWord(frame))
                /\ zeroReads' = IF allZeros THEN zeroReads + 1 ELSE zeroReads
                /\ consecutiveZeroReads' =
                       IF attempted /\ c2.ok THEN 0 ELSE consec1
                /\ sessionZeroRun' =
                       IF attempted THEN 0
                       ELSE IF TrueAllZero(frame) THEN sessionZeroRun + 1
                       ELSE 0
                /\ Commit(c2, o, 2 * Len(out), out)
        /\ UNCHANGED initialized

(***************************************************************************)
(* ButtonHandler (button_handler.cpp)                                      *)
(***************************************************************************)
LONG_PRESS_MS == 800
DEBOUNCE_MS == 50
PIN_BUTTON == 34

\* the global object before init(): zero-initialised storage
ButtonZero ==
    [buttonPin |-> 0, longPressThreshold |-> 0, debounceDelay |-> 0,
     currentState |-> FALSE, lastRawState |-> FALSE, lastDebounceTime |-> 0,
     pressStartTime |-> 0, shortPressFlag |-> FALSE, longPressFlag |-> FALSE,
     longPressTriggered |-> FALSE]

NoPress == [begun |-> FALSE, done |-> FALSE, duration |-> 0, short |-> FALSE,
            long |-> FALSE, raises |-> 0, after |-> 0]

\* ButtonHandler::init; rawState is what readRawState() returns in it
ButtonHandler_init(pin, longPressMs, debounceMs, rawState) ==
    [buttonPin |-> pin, longPressThreshold |-> longPressMs,
     debounceDelay |-> debounceMs,
     currentState |-> FALSE, lastRawState |-> rawState,
     lastDebounceTime |-> 0, pressStartTime |-> 0,
     shortPressFlag |-> FALSE, longPressFlag |-> FALSE,
     longPressTriggered |-> FALSE]

\* ButtonHandler::update at time now with the raw reading rawState: the new
\* object in field b, and what the call detected in the other fields
ButtonHandler_update_NoLatch(b, now, rawState) ==
    LET b1 == [b EXCEPT !.lastDebounceTime =
                            IF rawState # b.lastRawState THEN now ELSE @,
                        !.lastRawState = rawState]
        settled == (now - b1.lastDebounceTime) > b1.debounceDelay
        previous == b1.currentState
        b2 == IF settled THEN [b1 EXCEPT !.currentState = rawState] ELSE b1
        rising == settled /\ b2.currentState /\ ~previous
        falling == settled /\ ~b2.currentState /\ previous
        short == /\ falling
                 /\ ~b2.longPressTriggered
                 /\ (now - b2.pressStartTime) < b2.longPressThreshold
        b3 == IF rising
              THEN [b2 EXCEPT !.pressStartTime = now,
                              !.longPressTriggered = FALSE]
              ELSE IF short THEN [b2 EXCEPT !.shortPressFlag = TRUE]
              ELSE b2
        long == /\ b3.currentState
                /\ ~b3.longPressTriggered
                /\ (now - b3.pressStartTime) >= b3.longPressThreshold
    IN  [b |-> IF long THEN [b3 EXCEPT !.longPressFlag = TRUE] ELSE b3,
         rising |-> rising, falling |-> falling, short |-> short,
         long |-> long, duration |-> now - b3.pressStartTime]

ButtonHandler_update(b, now, rawState) ==
    LET b1 == [b EXCEPT !.lastDebounceTime =
                            IF rawState # b.lastRawState THEN now ELSE @,
                        !.lastRawState = rawState]
        settled == (now - b1.lastDebounceTime) > b1.debounceDelay
        previous == b1.currentState
        b2 == IF settled THEN [b1 EXCEPT !.currentState = rawState] ELSE b1
        rising == settled /\ b2.currentState /\ ~previous
        falling == settled /\ ~b2.currentState /\ previous
        short == /\ falling
                 /\ ~b2.longPressTriggered
                 /\ (now - b2.pressStartTime) < b2.longPressThreshold
        b3 == IF rising
              THEN [b2 EXCEPT !.pressStartTime = now,
                              !.longPressTriggered = FALSE]
              ELSE IF short THEN [b2 EXCEPT !.shortPressFlag = TRUE]
              ELSE b2
        long == /\ b3.currentState
                /\ ~b3.longPressTriggered
                /\ (now - b3.pressStartTime) >= b3.longPressThreshold
    IN  [b |-> IF long
               THEN [b3 EXCEPT !.longPressFlag = TRUE,
                               !.longPressTriggered = TRUE]
               ELSE b3,
         rising |-> rising, falling |-> falling, short |-> short,
         long |-> long, duration |-> now - b3.pressStartTime]

\* history of one debounced press: begun at its rising edge, done at its
\* falling edge, with the events update() raised for it in between, how
\* often the long-press event was raised and how many polls of the hold
\* followed it
PressLog(p, u) ==
    LET n == IF u.long THEN 1 ELSE 0
    IN  IF u.rising
        THEN [begun |-> TRUE, done |-> FALSE, duration |-> u.duration,
              short |-> FALSE, long |-> u.long, raises |-> n, after |-> 0]
        ELSE IF u.falling
        THEN [p EXCEPT !.done = TRUE, !.duration = u.duration,
                       !.short = u.short]
        ELSE IF u.b.currentState
        THEN [p EXCEPT !.duration = u.duration, !.long = @ \/ u.long,
                       !.raises = @ + n,
                       !.after = IF p.long /\ ~u.long
                                 THEN Min(@ + 1, SeenLoops) ELSE 0]
        ELSE p

\* history of the raw level as readRawState() returned it: the level of the
\* last reading, when a reading first returned it without another level
\* read since, and how long the raw level had been read as pressed when
\* the debounced state last became pressed
NoReading == [level |-> FALSE, since |-> 0, pressed |-> 0]

FirstReading(now, rawState) ==
    [level |-> rawState, since |-> now, pressed |-> 0]

Reading(s, u, now, rawState) ==
    LET since == IF rawState = s.level THEN s.since ELSE now
    IN  [level |-> rawState, since |-> since,
         pressed |-> IF u.rising THEN now - since ELSE s.pressed]

\* the harness calls of the ButtonHandler on its own
button_init(rawState) ==
    /\ button' = ButtonHandler_init(PIN_BUTTON, LONG_PRESS_MS, DEBOUNCE_MS,
                                    rawState)
    /\ press' = NoPress
    /\ steady' = FirstReading(millis, rawState)
    /\ UNCHANGED <<ctlVars, benchVars, sketchVars, millis>>

delay(ms) ==
    /\ millis' = millis + ms
    /\ UNCHANGED <<ctlVars, benchVars, sketchVars, button, press, steady>>

update(rawState) ==
    LET u == ButtonHandler_update(button, millis, rawState)
    IN  /\ button' = u.b
        /\ press' = PressLog(press, u)
        /\ steady' = Reading(steady, u, millis, rawState)
        /\ UNCHANGED <<ctlVars, benchVars, sketchVars, millis>>

wasShortPress ==
    /\ button' = [button EXCEPT !.shortPressFlag = FALSE]
    /\ UNCHANGED <<ctlVars, benchVars, sketchVars, millis, press, steady>>

wasLongPress ==
    /\ button' = [button EXCEPT !.longPressFlag = FALSE]
    /\ UNCHANGED <<ctlVars, benchVars, sketchVars, millis, press, steady>>

(***************************************************************************)
(* AudioManager calls as the sketch makes them: several in one loop(), so  *)
(* each maps a controller value c (and the health statics h) to the next   *)
(***************************************************************************)
Health ==
    [consec |-> consecutiveZeroReads, total |-> totalReads,
     zero |-> zeroReads, stuck |-> loggedStuckState, run |-> sessionZeroRun]

AudioManager_startPlayback(c, sampleRate, outcome) ==
    IF ~initialized THEN [c EXCEPT !.ok = FALSE]
    ELSE reconfigureI2S(variant, c, AUDIO_MODE_PLAYBACK, sampleRate, outcome)

\* the return value in .ret
AudioManager_writePlaybackData(c, length, result) ==
    IF c.mode # AUDIO_MODE_PLAYBACK
    THEN [c |-> c, ret |-> 0]
    ELSE [c |-> Log(c, Ev("i2s_write", PortOf(variant, AUDIO_MODE_PLAYBACK),
                          portMAX_DELAY)),
          ret |-> IF result # ESP_OK THEN 0 ELSE length]

AudioManager_stopPlayback(c) ==
    IF c.mode = AUDIO_MODE_PLAYBACK
    THEN shutdownI2S(variant,
                     Log(c, Ev("i2s_zero_dma_buffer",
                               PortOf(variant, AUDIO_MODE_PLAYBACK), 0)))
    ELSE c

AudioManager_startRecording(c, sampleRate, outcome) ==
    LET c1 == reconfigureI2S(variant, c, AUDIO_MODE_RECORDING, sampleRate,
                             outcome)
        port == PortOf(variant, AUDIO_MODE_RECORDING)
    IN  IF ~initialized THEN [c EXCEPT !.ok = FALSE]
        ELSE IF ~c1.ok THEN c1
        ELSE Log(Log(Log(c1, Ev("i2s_zero_dma_buffer", port, 0)),
                     Ev("i2s_read", port, 0)),
                 Ev("delay", -1, 500))

AudioManager_stopRecording(c) ==
    IF c.mode = AUDIO_MODE_RECORDING THEN shutdownI2S(variant, c) ELSE c

\* the controller in .c, the statics in .h, the bytes returned in .ret and
\* the samples written to the caller's buffer in .out
AudioManager_readRecordedData(c, h, maxLength, result, frame, outcome) ==
    LET c1 == Log(c, Ev("i2s_read", PortOf(variant, AUDIO_MODE_RECORDING),
                        ReadTimeout))
        out == Convert(variant, frame)
        allZeros == allZerosThisRead(frame)
        consec1 == UpdateStreak(h.consec, allZeros)
        restart == allZeros /\ consec1 = HardThreshold
        c2 == IF restart THEN RestartI2S(c1, outcome) ELSE c1
    IN  IF c.mode # AUDIO_MODE_RECORDING
        THEN [c |-> c, h |-> h, ret |-> 0, out |-> <<>>]
        ELSE IF result # ESP_OK \/ frame = <<>>
        THEN [c |-> c1, h |-> h, ret |-> 0, out |-> <<>>]
        ELSE [c |-> c2,
              h |-> [consec |-> IF restart /\ c2.ok THEN 0 ELSE consec1,
                     total |-> h.total + 1,
                     zero |-> IF allZeros THEN h.zero + 1 ELSE h.zero,
                     stuck |-> h.stuck \/ SeesStuckWord(frame),
                     run |-> IF restart THEN 0
                             ELSE IF TrueAllZero(frame) THEN h.run + 1
                             ELSE 0],
              ret |-> 2 * Len(out), out |-> out]

(***************************************************************************)
(* esp32_voice_lte.ino: setup, transitionTo and loop                       *)
(***************************************************************************)
STATE_INIT == "STATE_INIT"
STATE_IDLE == "STATE_IDLE"
STATE_READING_NFC == "STATE_READING_NFC"
STATE_FETCH_AUDIO == "STATE_FETCH_AUDIO"
STATE_PLAYING == "STATE_PLAYING"
STATE_RECORDING == "STATE_RECORDING"
STATE_UPLOADING == "STATE_UPLOADING"
STATE_ERROR == "STATE_ERROR"
AppState == {STATE_INIT, STATE_IDLE, STATE_READING_NFC, STATE_FETCH_AUDIO,
             STATE_PLAYING, STATE_RECORDING, STATE_UPLOADING, STATE_ERROR}

ACTION_NONE == "ACTION_NONE"
ACTION_PLAYBACK == "ACTION_PLAYBACK"
ACTION_RECORD == "ACTION_RECORD"

ERROR_NONE == "ERROR_NONE"
ERROR_NFC_INIT == "ERROR_NFC_INIT"
ERROR_NFC_READ == "ERROR_NFC_READ"
ERROR_LTE_INIT == "ERROR_LTE_INIT"
ERROR_HTTP_GET == "ERROR_HTTP_GET"
ERROR_HTTP_POST == "ERROR_HTTP_POST"
ERROR_AUDIO_INIT == "ERROR_AUDIO_INIT"
ERROR_AUDIO_PLAYBACK == "ERROR_AUDIO_PLAYBACK"
ERROR_AUDIO_RECORD == "ERROR_AUDIO_RECORD"
ERROR_OUT_OF_MEMORY == "ERROR_OUT_OF_MEMORY"

AUDIO_BUFFER_SIZE == 32768
NFC_READ_TIMEOUT_MS == 2000
MAX_RECORDING_MS == 30000
HTTP_RETRY_COUNT == 3
TempBufBytes == 512
LoopDelay == 10
ErrorDelay == 1000

audioBufferSize == AUDIO_BUFFER_SIZE

\* history of the buffer writes of one loop(): bytes the read returned,
\* samples offered, samples stored, the end offset of the last store, and
\* whether the chunk was refused
NoStore == [ret |-> 0, asked |-> 0, n |-> 0, top |-> 0, refused |-> FALSE]

NoVisit == [loops |-> 0, entries |-> 0, gets |-> 0, posts |-> 0,
            reads |-> 0, starts |-> 0]

\* the sketch, its button, its audio manager and the history of the visit
\* as one value
Sk ==
    [currentState |-> currentState, previousState |-> previousState,
     currentAction |-> currentAction, lastError |-> lastError,
     stateStartTime |-> stateStartTime, nfcReadTimeout |-> nfcReadTimeout,
     audioDataLength |-> audioDataLength,
     recordingStartTime |-> recordingStartTime,
     recordingLength |-> recordingLength, retryCount |-> retryCount,
     b |-> button, c |-> [Ctl EXCEPT !.ok = TRUE], h |-> Health,
     out |-> <<>>, visit |-> visit,
     store |-> NoStore]

\* transitionTo at time t = millis()
transitionTo(m, newState, t) ==
    IF newState # m.currentState
    THEN [m EXCEPT !.previousState = m.currentState,
                   !.currentState = newState,
                   !.stateStartTime = t,
                   !.retryCount = IF newState = STATE_IDLE THEN 0 ELSE @,
                   !.currentAction =
                       IF newState = STATE_IDLE THEN ACTION_NONE ELSE @]
    ELSE m

\* lines 198-202: where a successful NFC read leads
AfterNfcRead_SkipFetch(m, t) ==
    IF m.currentAction = ACTION_PLAYBACK
    THEN transitionTo(m, STATE_PLAYING, t)
    ELSE IF m.currentAction = ACTION_RECORD
    THEN transitionTo(m, STATE_RECORDING, t)
    ELSE m

AfterNfcRead(m, t) ==
    IF m.currentAction = ACTION_PLAYBACK
    THEN transitionTo(m, STATE_FETCH_AUDIO, t)
    ELSE IF m.currentAction = ACTION_RECORD
    THEN transitionTo(m, STATE_RECORDING, t)
    ELSE m

caseIdle(m, t) ==
    IF m.b.shortPressFlag
    THEN transitionTo([m EXCEPT !.b.shortPressFlag = FALSE,
                                !.currentAction = ACTION_PLAYBACK],
                      STATE_READING_NFC, t)
    ELSE IF m.b.longPressFlag
    THEN transitionTo([m EXCEPT !.b.longPressFlag = FALSE,
                                !.currentAction = ACTION_RECORD],
                      STATE_READING_NFC, t)
    ELSE m

caseReadingNfc(m, now, t, in) ==
    LET m1 == IF m.stateStartTime = now
              THEN [m EXCEPT !.nfcReadTimeout = now + NFC_READ_TIMEOUT_MS,
                             !.visit.entries = @ + 1]
              ELSE m
    IN  IF in.nfcOk THEN AfterNfcRead(m1, t)
        ELSE IF now > m1.nfcReadTimeout
        THEN transitionTo([m1 EXCEPT !.lastError = ERROR_NFC_READ],
                          STATE_IDLE, t)
        ELSE m1

\* the retry logic shared by the two HTTP states (lines 239-249, 371-380)
RetryOrGiveUp_Forever(m, now, t) ==
    [m EXCEPT !.retryCount = @ + 1, !.stateStartTime = now]

RetryOrGiveUp(m, now, t) ==
    LET m1 == [m EXCEPT !.retryCount = @ + 1]
    IN  IF m1.retryCount < HTTP_RETRY_COUNT
        THEN [m1 EXCEPT !.stateStartTime = now]
        ELSE transitionTo([m1 EXCEPT !.retryCount = 0], STATE_IDLE, t)

caseFetchAudio(m, now, t, in) ==
    IF m.stateStartTime = now
    THEN LET m1 == [m EXCEPT !.visit.entries = @ + 1, !.visit.gets = @ + 1]
         IN  IF in.httpOk
             THEN LET m2 == [m1 EXCEPT !.audioDataLength = in.httpLength]
                  IN  IF m2.audioDataLength > 0
                      THEN transitionTo(m2, STATE_PLAYING, t)
                      ELSE transitionTo(m2, STATE_IDLE, t)
             ELSE RetryOrGiveUp([m1 EXCEPT !.audioDataLength = 0,
                                           !.lastError = ERROR_HTTP_GET],
                                now, t)
    ELSE m

casePlaying(m, now, t, in) ==
    IF m.stateStartTime = now
    THEN LET c1 == AudioManager_startPlayback(m.c, SAMPLE_RATE, in.outcome)
             w == AudioManager_writePlaybackData(c1, m.audioDataLength,
                                                 in.result)
             c2 == AudioManager_stopPlayback(w.c)
             m1 == [m EXCEPT !.visit.entries = @ + 1,
                             !.visit.starts = @ + 1]
         IN  IF ~c1.ok
             THEN transitionTo([m1 EXCEPT !.c = c1,
                                          !.lastError = ERROR_AUDIO_PLAYBACK],
                               STATE_IDLE, t)
             ELSE transitionTo([m1 EXCEPT !.c = c2], STATE_IDLE, t)
    ELSE m

\* line 313: the loop goes on only while the next store lies in the buffer
RoomAt_Always(length) == TRUE

RoomAt(length) == length < audioBufferSize

\* lines 312-321: the number of passes of the copy loop that starts with
\* recordingLength = length; i counts the samples copied so far
RECURSIVE Passes(_, _, _)
Passes(length, i, samples) ==
    IF i < samples /\ RoomAt(length)
    THEN Passes(length + 2, i + 1, samples)
    ELSE i

\* lines 312-321: the 32-bit to 16-bit copy into audioBuffer, two bytes
\* stored at recordingLength in each pass
CopySamples(m, samples) ==
    LET k == Passes(m.recordingLength, 0, samples)
    IN  [m EXCEPT !.recordingLength = @ + 2 * k,
                  !.store.n = k,
                  !.store.top = IF k > 0 THEN m.recordingLength + 2 * k
                                ELSE @]

\* lines 305-323 for a read that returned r (r.ret bytes)
StoreRead(m, r) ==
    IF m.recordingLength < audioBufferSize
    THEN LET m1 == [m EXCEPT !.c = r.c, !.h = r.h, !.out = r.out,
                             !.visit.reads = Min(@ + 1, SeenLoops),
                             !.store.ret = r.ret,
                             !.store.asked = r.ret \div 4]
         IN  IF r.ret > 0 THEN CopySamples(m1, r.ret \div 4) ELSE m1
    ELSE m

\* lines 304-323: one chunk read and stored
RecordChunk(m, in) ==
    StoreRead(m, AudioManager_readRecordedData(m.c, m.h, TempBufBytes,
                                               in.result, in.frame,
                                               in.outcome))

\* lines 325-346: the stop conditions
StopConditions(m, now, t) ==
    LET recordingDuration == now - m.recordingStartTime
        stopped == [m EXCEPT !.c = AudioManager_stopRecording(m.c)]
    IN  IF ~m.b.currentState
        THEN transitionTo(stopped, STATE_UPLOADING, t)
        ELSE IF recordingDuration >= MAX_RECORDING_MS
        THEN transitionTo(stopped, STATE_UPLOADING, t)
        ELSE IF m.recordingLength >= audioBufferSize
        THEN transitionTo(stopped, STATE_UPLOADING, t)
        ELSE m

caseRecording(m, now, t, in) ==
    LET entry == m.stateStartTime = now
        c1 == AudioManager_startRecording(m.c, SAMPLE_RATE, in.outcome)
        m1 == IF entry
              THEN [m EXCEPT !.recordingStartTime = now,
                             !.recordingLength = 0,
                             !.c = c1,
                             !.h.run = IF c1.ok THEN 0 ELSE @,
                             !.visit.entries = @ + 1,
                             !.visit.starts = @ + 1]
              ELSE m
    IN  IF entry /\ ~c1.ok
        THEN transitionTo([m1 EXCEPT !.lastError = ERROR_AUDIO_RECORD],
                          STATE_IDLE, t)
        ELSE StopConditions(RecordChunk(m1, in), now, t)

caseUploading(m, now, t, in) ==
    IF m.stateStartTime = now
    THEN LET m1 == [m EXCEPT !.visit.entries = @ + 1, !.visit.posts = @ + 1]
         IN  IF in.httpOk
             THEN transitionTo(m1, STATE_IDLE, t)
             ELSE RetryOrGiveUp([m1 EXCEPT !.lastError = ERROR_HTTP_POST],
                                now, t)
    ELSE m

\* the switch of loop(), after button.update() and lte.update()
Switch(m, now, t, in) ==
    CASE m.currentState = STATE_IDLE -> caseIdle(m, t)
      [] m.currentState = STATE_READING_NFC -> caseReadingNfc(m, now, t, in)
      [] m.currentState = STATE_FETCH_AUDIO -> caseFetchAudio(m, now, t, in)
      [] m.currentState = STATE_PLAYING -> casePlaying(m, now, t, in)
      [] m.currentState = STATE_RECORDING -> caseRecording(m, now, t, in)
      [] m.currentState = STATE_UPLOADING -> caseUploading(m, now, t, in)
      [] OTHER -> m

\* what one loop() consumes: the raw button level, the outcome of the NFC
\* read, of the HTTP request, of the driver calls and of the i2s transfer,
\* the time spent before a transition (busy) and behind delay(10) (slack)
LoopInput ==
    [rawState |-> FALSE, nfcOk |-> FALSE, httpOk |-> FALSE, httpLength |-> 0,
     outcome |-> "ok", result |-> ESP_OK, frame |-> <<>>, busy |-> 0,
     slack |-> 0]

\* the sketch value after the body of loop()
LoopBody(in) ==
    LET now == millis
        u == ButtonHandler_update(button, now, in.rawState)
        m0 == [Sk EXCEPT !.b = u.b]
        m1 == Switch(m0, now, now + in.busy, in)
    IN  IF m1.currentState # currentState
        THEN [m1 EXCEPT !.visit = NoVisit]
        ELSE [m1 EXCEPT !.visit.loops = Min(@ + 1, SeenLoops)]

\* writes a sketch value back
SetSketch(m, o) ==
    /\ currentState' = m.currentState
    /\ previousState' = m.previousState
    /\ currentAction' = m.currentAction
    /\ lastError' = m.lastError
    /\ stateStartTime' = m.stateStartTime
    /\ nfcReadTimeout' = m.nfcReadTimeout
    /\ audioDataLength' = m.audioDataLength
    /\ recordingStartTime' = m.recordingStartTime
    /\ recordingLength' = m.recordingLength
    /\ retryCount' = m.retryCount
    /\ button' = m.b
    /\ visit' = m.visit
    /\ store' = m.store
    /\ currentMode' = m.c.mode
    /\ currentSampleRate' = m.c.rate
    /\ driver' = m.c.drv
    /\ calls' = m.c.calls
    /\ peak' = m.c.peak
    /\ consecutiveZeroReads' = m.h.consec
    /\ totalReads' = m.h.total
    /\ zeroReads' = m.h.zero
    /\ loggedStuckState' = m.h.stuck
    /\ sessionZeroRun' = m.h.run
    /\ op' = o
    /\ pre' = Snapshot
    /\ ret' = "void"
    /\ outBuf' = m.out

\* setup(): which == "ok" or the step that fails; took is the time it takes
SetupFailures == {"malloc", "nfc.init", "audio.init", "lte.init",
                  "lte.powerOn"}

setup(which, rawState, took) ==
    LET b == IF which = "malloc" THEN button
             ELSE ButtonHandler_init(PIN_BUTTON, LONG_PRESS_MS, DEBOUNCE_MS,
                                     rawState)
        audioUp == which \notin {"malloc", "nfc.init", "audio.init"}
        c == IF audioUp
             THEN [Ctl EXCEPT !.mode = AUDIO_MODE_NONE, !.rate = SAMPLE_RATE]
             ELSE Ctl
        failed == [Sk EXCEPT !.b = b, !.c = c,
                             !.currentState = STATE_ERROR,
                             !.lastError =
                                 CASE which = "malloc" -> ERROR_OUT_OF_MEMORY
                                   [] which = "nfc.init" -> ERROR_NFC_INIT
                                   [] which = "audio.init" -> ERROR_AUDIO_INIT
                                   [] OTHER -> ERROR_LTE_INIT]
        ready == transitionTo([Sk EXCEPT !.b = b, !.c = c], STATE_IDLE,
                              millis + took)
    IN  /\ sketch = "none"
        /\ sketch' = "esp32_voice_lte"
        /\ initialized' = audioUp
        /\ millis' = millis + took
        /\ press' = NoPress
        /\ steady' = IF which = "malloc" THEN steady
                     ELSE FirstReading(millis, rawState)
        /\ SetSketch(IF which = "ok" THEN ready ELSE failed, Op("setup"))
        /\ UNCHANGED <<variant, benchVars, recordedSamples, testVars>>

loop(in) ==
    LET u == ButtonHandler_update(button, millis, in.rawState)
        m == LoopBody(in)
        halt == IF currentState = STATE_ERROR THEN ErrorDelay ELSE 0
    IN  /\ sketch = "esp32_voice_lte"
        /\ SetSketch(m, Op("loop"))
        /\ press' = PressLog(press, u)
        /\ steady' = Reading(steady, u, millis, in.rawState)
        /\ millis' = millis + in.busy + halt + LoopDelay + in.slack
        /\ UNCHANGED <<variant, initialized, benchVars, sketch,
                       recordedSamples, testVars>>

(***************************************************************************)
(* Recording loops on their own: the record block of esp32_voice_lte.ino   *)
(* applied to the bytes a read returned, and case STATE_RECORDING of the   *)
(* NFC + audio test firmware                                              *)
(***************************************************************************)
MAX_AUDIO_SAMPLES == SAMPLE_RATE * 3
TestRecordingMs == 3000

\* esp32_voice_lte.ino lines 304-346 with the button held: the chunk of a
\* read that returned bytesRead bytes is stored, then the stop conditions
recordChunk(bytesRead) ==
    LET m0 == [Sk EXCEPT !.b.currentState = TRUE]
        m1 == StoreRead(m0, [c |-> m0.c, h |-> m0.h, ret |-> bytesRead,
                             out |-> <<>>])
        m2 == StopConditions(m1, millis, millis)
    IN  /\ sketch = "esp32_voice_lte"
        /\ currentState = STATE_RECORDING
        /\ recordingLength' = m2.recordingLength
        /\ store' = m2.store
        /\ currentState' = m2.currentState
        /\ previousState' = m2.previousState
        /\ stateStartTime' = m2.stateStartTime
        /\ visit' = m2.visit
        /\ UNCHANGED <<ctlVars, benchVars, boardVars, sketch, currentAction,
                       lastError, nfcReadTimeout, audioDataLength,
                       recordingStartTime, recordedSamples, retryCount,
                       testVars>>

\* test firmware, case STATE_RECORDING (part_002 lines 283-328) and the
\* delay(10) of its loop, for a read that returned bytesRead bytes
recordingCase(bytesRead) ==
    LET samplesRead == bytesRead \div 2
        fits == recordedSamples + samplesRead <= MAX_AUDIO_SAMPLES
        full == bytesRead > 0 /\ ~fits
        timeUp == millis - recordingStartTime >= TestRecordingMs
    IN  /\ sketch = "nfc_audio_test"
        /\ currentState = STATE_RECORDING
        /\ recordedSamples' = IF bytesRead > 0 /\ fits
                              THEN recordedSamples + samplesRead
                              ELSE recordedSamples
        /\ store' = IF bytesRead > 0 /\ fits
                    THEN [ret |-> bytesRead, asked |-> samplesRead,
                          n |-> samplesRead,
                          top |-> recordedSamples + samplesRead,
                          refused |-> FALSE]
                    ELSE [ret |-> bytesRead, asked |-> samplesRead,
                          n |-> 0, top |-> 0, refused |-> full]
        /\ currentState' = IF full \/ timeUp THEN STATE_READING_NFC
                           ELSE currentState
        /\ millis' = millis + LoopDelay
        /\ visit' = [visit EXCEPT !.reads = Min(@ + 1, SeenLoops)]
        /\ UNCHANGED <<ctlVars, benchVars, button, press, steady, sketch,
                       previousState, currentAction, lastError,
                       stateStartTime, nfcReadTimeout, audioDataLength,
                       recordingStartTime, recordingLength, retryCount,
                       testVars>>

(***************************************************************************)
(* NFC + audio test firmware (part_002): setup() and loop()                *)
(***************************************************************************)
TestLongPressMs == 2000
TestSetupDelay == 1000
NfcCheckMs == 500
NfcSessionMs == 10000
ReadBufferSamples == 256

\* the test firmware, its button and its audio manager as one value
Tf ==
    [currentState |-> currentState, recordedSamples |-> recordedSamples,
     recordingStartTime |-> recordingStartTime,
     lastNFCCheck |-> lastNFCCheck, nfcReadTime |-> nfcReadTime,
     playbackIndex |-> playbackIndex, playbackStarted |-> playbackStarted,
     b |-> button, c |-> [Ctl EXCEPT !.ok = TRUE], h |-> Health,
     out |-> <<>>]

\* the milliseconds the delay() calls logged in cs take
RECURSIVE Blocked(_)
Blocked(cs) ==
    IF cs = <<>> THEN 0
    ELSE (IF Head(cs).f = "delay" THEN Head(cs).wait ELSE 0)
         + Blocked(Tail(cs))

\* case STATE_IDLE: the tag is looked for every 500 ms
testIdle(m, now, in) ==
    IF now - m.lastNFCCheck > NfcCheckMs
    THEN LET m1 == [m EXCEPT !.lastNFCCheck = now]
         IN  IF in.nfcOk THEN [m1 EXCEPT !.currentState = STATE_READING_NFC]
             ELSE m1
    ELSE m

\* case STATE_READING_NFC, lines 268-279: the session timeout, at time t
sessionTimeout(m, t) ==
    LET m1 == IF m.nfcReadTime = 0 THEN [m EXCEPT !.nfcReadTime = t] ELSE m
    IN  IF t - m1.nfcReadTime > NfcSessionMs
        THEN [m1 EXCEPT !.nfcReadTime = 0, !.currentState = STATE_IDLE]
        ELSE m1

\* case STATE_READING_NFC: a short press starts a recording, a long press
\* the playback of what was recorded; a failed start leaves the case by
\* break, every other path runs into the session timeout
testReadingNfc(m, now, in) ==
    IF m.b.shortPressFlag
    THEN LET c1 == AudioManager_startRecording(m.c, SAMPLE_RATE, in.outcome)
             t == now + Blocked(c1.calls)
             m1 == [m EXCEPT !.b.shortPressFlag = FALSE, !.c = c1,
                             !.h.run = IF c1.ok THEN 0 ELSE @]
         IN  IF ~c1.ok THEN [m1 EXCEPT !.currentState = STATE_ERROR]
             ELSE sessionTimeout([m1 EXCEPT !.recordedSamples = 0,
                                            !.recordingStartTime = t,
                                            !.currentState = STATE_RECORDING],
                                 t)
    ELSE IF m.b.longPressFlag
    THEN LET m0 == [m EXCEPT !.b.longPressFlag = FALSE]
             c1 == AudioManager_startPlayback(m.c, SAMPLE_RATE, in.outcome)
             t == now + Blocked(c1.calls)
         IN  IF m.recordedSamples = 0 THEN sessionTimeout(m0, now)
             ELSE IF ~c1.ok
             THEN [m0 EXCEPT !.c = c1, !.currentState = STATE_ERROR]
             ELSE sessionTimeout([m0 EXCEPT !.c = c1,
                                            !.currentState = STATE_PLAYING],
                                 t)
    ELSE sessionTimeout(m, now)

\* case STATE_RECORDING: one chunk read and kept, then the 3 s limit
testRecording(m, now, in) ==
    LET r == AudioManager_readRecordedData(m.c, m.h, 2 * ReadBufferSamples,
                                           in.result, in.frame, in.outcome)
        samplesRead == r.ret \div 2
        fits == m.recordedSamples + samplesRead <= MAX_AUDIO_SAMPLES
        t == now + Blocked(r.c.calls)
        m1 == [m EXCEPT !.c = r.c, !.h = r.h, !.out = r.out,
                        !.recordedSamples =
                            IF r.ret > 0 /\ fits THEN @ + samplesRead ELSE @]
        stopped == [m1 EXCEPT !.c = AudioManager_stopRecording(m1.c),
                              !.currentState = STATE_READING_NFC]
    IN  IF r.ret > 0 /\ ~fits THEN stopped
        ELSE IF t - m1.recordingStartTime >= TestRecordingMs THEN stopped
        ELSE m1

\* case STATE_PLAYING: one chunk written, or the playback stopped
testPlaying(m, in) ==
    LET m1 == IF ~m.playbackStarted
              THEN [m EXCEPT !.playbackIndex = 0, !.playbackStarted = TRUE]
              ELSE m
        samplesToProcess ==
            Min(ReadBufferSamples, m1.recordedSamples - m1.playbackIndex)
        w == AudioManager_writePlaybackData(m1.c, 2 * samplesToProcess,
                                            in.result)
    IN  IF m1.playbackIndex < m1.recordedSamples
        THEN [m1 EXCEPT !.c = w.c, !.playbackIndex = @ + w.ret \div 2]
        ELSE [m1 EXCEPT !.c = AudioManager_stopPlayback(m1.c),
                        !.playbackStarted = FALSE,
                        !.currentState = STATE_READING_NFC]

\* the switch of loop(), after button.update()
testSwitch(m, now, in) ==
    CASE m.currentState = STATE_IDLE -> testIdle(m, now, in)
      [] m.currentState = STATE_READING_NFC -> testReadingNfc(m, now, in)
      [] m.currentState = STATE_RECORDING -> testRecording(m, now, in)
      [] m.currentState = STATE_PLAYING -> testPlaying(m, in)
      [] OTHER -> m

testLoopBody(in) ==
    LET now == millis
        u == ButtonHandler_update(button, now, in.rawState)
    IN  testSwitch([Tf EXCEPT !.b = u.b], now, in)

\* writes a test firmware value back
SetTest(m, o) ==
    /\ currentState' = m.currentState
    /\ recordedSamples' = m.recordedSamples
    /\ recordingStartTime' = m.recordingStartTime
    /\ lastNFCCheck' = m.lastNFCCheck
    /\ nfcReadTime' = m.nfcReadTime
    /\ playbackIndex' = m.playbackIndex
    /\ playbackStarted' = m.playbackStarted
    /\ button' = m.b
    /\ currentMode' = m.c.mode
    /\ currentSampleRate' = m.c.rate
    /\ driver' = m.c.drv
    /\ calls' = m.c.calls
    /\ peak' = m.c.peak
    /\ consecutiveZeroReads' = m.h.consec
    /\ totalReads' = m.h.total
    /\ zeroReads' = m.h.zero
    /\ loggedStuckState' = m.h.stuck
    /\ sessionZeroRun' = m.h.run
    /\ op' = o
    /\ pre' = Snapshot
    /\ ret' = "void"
    /\ outBuf' = m.out
    /\ UNCHANGED <<variant, benchVars, previousState, currentAction,
                   lastError, stateStartTime, nfcReadTimeout,
                   audioDataLength, recordingLength, retryCount, visit,
                   store>>

\* setup() of the test firmware: which == "ok" or the step that fails; took
\* is the time it takes after its delay(1000)
TestSetupFailures == {"heap", "malloc"}

testSetup(which, rawState, took) ==
    LET t == millis + TestSetupDelay
        b == ButtonHandler_init(PIN_BUTTON, TestLongPressMs, DEBOUNCE_MS,
                                rawState)
        c == [Ctl EXCEPT !.mode = AUDIO_MODE_NONE, !.rate = SAMPLE_RATE]
        ready == [Tf EXCEPT !.b = b, !.c = c, !.currentState = STATE_IDLE,
                            !.recordedSamples = 0]
        failed == [Tf EXCEPT !.currentState = STATE_ERROR]
    IN  /\ sketch = "none"
        /\ initialized' = (which = "ok")
        /\ millis' = t + took
        /\ press' = NoPress
        /\ steady' = IF which = "ok" THEN FirstReading(t, rawState)
                     ELSE steady
        /\ SetTest(IF which = "ok" THEN ready ELSE failed, Op("setup"))
        /\ sketch' = "nfc_audio_test"

testLoop(in) ==
    LET u == ButtonHandler_update(button, millis, in.rawState)
        m == testLoopBody(in)
    IN  /\ sketch = "nfc_audio_test"
        /\ SetTest(m, Op("loop"))
        /\ press' = PressLog(press, u)
        /\ steady' = Reading(steady, u, millis, in.rawState)
        /\ millis' = millis + Blocked(m.c.calls) + LoopDelay + in.slack
        /\ UNCHANGED <<initialized, sketch>>

(***************************************************************************)
(* Decoder bench: one raw slot converted as in the loop of the read        *)
(***************************************************************************)
DecodeSlot ==
    /\ pcm = <<>>
    /\ pcm' = <<Decode(decoder, raw)>>
    /\ UNCHANGED <<ctlVars, raw, decoder, boardVars, sketchVars>>

(***************************************************************************)
(* Specifications                                                          *)
(***************************************************************************)
HiValues == {0, 1, 3, 4660, 22136, 32767, 32768, 49152, 65534, 65535}
LoValues == {0, 1, 2, 255, 256, 16383, 16384, 32767, 32768, 65535}
BenchWords == HiValues \X LoValues

InitCtl ==
    /\ variant \in Variants
    /\ initialized = FALSE
    /\ currentMode = AUDIO_MODE_NONE
    /\ currentSampleRate = 0
    /\ driver = NoDriver
    /\ consecutiveZeroReads = 0
    /\ totalReads = 0
    /\ zeroReads = 0
    /\ loggedStuckState = FALSE
    /\ sessionZeroRun = 0
    /\ op = NoArgs
    /\ pre = [mode |-> AUDIO_MODE_NONE, rate |-> 0, drv |-> NoDriver,
              consec |-> 0, total |-> 0, zero |-> 0, stuck |-> FALSE,
              run |-> 0]
    /\ ret = "void"
    /\ calls = <<>>
    /\ peak = 0
    /\ outBuf = <<>>
    /\ millis = 0
    /\ button = ButtonZero
    /\ press = NoPress
    /\ steady = NoReading
    /\ sketch = "none"
    /\ currentState = STATE_INIT
    /\ previousState = STATE_INIT
    /\ currentAction = ACTION_NONE
    /\ lastError = ERROR_NONE
    /\ stateStartTime = 0
    /\ nfcReadTimeout = 0
    /\ audioDataLength = 0
    /\ recordingStartTime = 0
    /\ recordingLength = 0
    /\ recordedSamples = 0
    /\ retryCount = 0
    /\ visit = NoVisit
    /\ store = NoStore
    /\ lastNFCCheck = 0
    /\ nfcReadTime = 0
    /\ playbackIndex = 0
    /\ playbackStarted = FALSE

Init ==
    /\ InitCtl
    /\ raw = Zero
    /\ decoder = "chain"
    /\ pcm = <<>>

\* the environment stops delivering data once the read counters reach the
\* explored bounds
MayDeliver(f, cap, nonZeroCap) ==
    \/ currentMode # AUDIO_MODE_RECORDING
    \/ f = <<>>
    \/ /\ totalReads < cap
       /\ ~allZerosThisRead(f) => totalReads - zeroReads < nonZeroCap

\* a failing i2s_read delivers nothing; the outcome of the driver calls is
\* an input only of a read that reaches them
ReadInputs(res, f, oc) ==
    /\ res # ESP_OK => f = <<>>
    /\ oc # "ok" =>
          /\ currentMode = AUDIO_MODE_RECORDING
          /\ allZerosThisRead(f) /\ f # <<>>
          /\ consecutiveZeroReads + 1 = HardThreshold

Next ==
    \/ init
    \/ \E r \in Rates, oc \in DriverOutcomes : startPlayback(r, oc)
    \/ \E r \in Rates, oc \in DriverOutcomes : startRecording(r, oc)
    \/ \E n \in WriteLengths, res \in {ESP_OK, ESP_FAIL} :
           writePlaybackData(n, res)
    \/ \E n \in ReadLengths, res \in {ESP_OK, ESP_FAIL}, f \in Frames,
          oc \in DriverOutcomes :
           /\ ReadInputs(res, f, oc)
           /\ MayDeliver(f, ShortReads, ShortReads)
           /\ readRecordedData(n, res, f, oc)
    \/ stopPlayback
    \/ stopRecording

Spec == Init /\ [][Next]_vars

\* long recording sessions: one rate, one buffer size, frames told apart
\* only by how the health monitor classifies them
HealthFrames == {<<>>, <<Zero>>, <<W1234, Zero, W5678, Zero>>}
HealthOutcomes == {"ok", "install_fails"}

NextHealth ==
    \/ init
    \/ \E oc \in HealthOutcomes : startRecording(SAMPLE_RATE, oc)
    \/ \E f \in HealthFrames, oc \in HealthOutcomes :
           /\ ReadInputs(ESP_OK, f, oc)
           /\ MayDeliver(f, MaxReads, MaxNonZeroReads)
           /\ readRecordedData(8, ESP_OK, f, oc)
    \/ stopRecording

SpecHealth == Init /\ [][NextHealth]_vars

\* a microphone that delivers nothing but zeros, over 2 * HardThreshold
\* reads and any number of sessions
RearmReads == 101
SilentFrames == {<<>>, <<Zero>>}

NextRearm ==
    \/ init
    \/ \E oc \in HealthOutcomes : startRecording(SAMPLE_RATE, oc)
    \/ \E f \in SilentFrames, oc \in HealthOutcomes :
           /\ ReadInputs(ESP_OK, f, oc)
           /\ MayDeliver(f, RearmReads, 0)
           /\ readRecordedData(8, ESP_OK, f, oc)
    \/ stopRecording

SpecRearm == Init /\ [][NextRearm]_vars

\* a microphone that is silent for a while and then stuck at 0x00000001,
\* for more reads than the restart threshold
StuckReads == 52
StuckFrames == {<<Zero>>, <<One, One>>}

NextStuck ==
    \/ init
    \/ \E oc \in HealthOutcomes : startRecording(SAMPLE_RATE, oc)
    \/ \E f \in StuckFrames, oc \in HealthOutcomes :
           /\ ReadInputs(ESP_OK, f, oc)
           /\ MayDeliver(f, StuckReads, StuckReads)
           /\ f = <<Zero>> => totalReads = zeroReads
           /\ readRecordedData(8, ESP_OK, f, oc)
    \/ stopRecording

SpecStuck == Init /\ [][NextStuck]_vars

InitDecode ==
    /\ InitCtl
    /\ raw \in BenchWords
    /\ decoder \in Decoders
    /\ pcm = <<>>

NextDecode == DecodeSlot

SpecDecode == InitDecode /\ [][NextDecode]_vars

\* the ButtonHandler on its own: polled at any pace, its flags read at any
\* time
Slacks == {50, 730}
Paces == {LoopDelay + x : x \in Slacks}

NextButton ==
    \/ \E rawState \in BOOLEAN :
           button.buttonPin = 0 /\ button_init(rawState)
    \/ \E ms \in Paces : millis + ms <= MaxMillis /\ delay(ms)
    \/ \E rawState \in BOOLEAN :
           button.buttonPin = PIN_BUTTON /\ update(rawState)
    \/ button.buttonPin = PIN_BUTTON /\ wasShortPress
    \/ button.buttonPin = PIN_BUTTON /\ wasLongPress

SpecButton == Init /\ [][NextButton]_vars

\* the ButtonHandler polled faster than its debounce delay, for as long as
\* DebounceMillis
DebounceMillis == 400
FastPaces == {20, 40}

NextDebounce ==
    \/ \E rawState \in BOOLEAN :
           button.buttonPin = 0 /\ button_init(rawState)
    \/ \E ms \in FastPaces : millis + ms <= DebounceMillis /\ delay(ms)
    \/ \E rawState \in BOOLEAN :
           button.buttonPin = PIN_BUTTON /\ update(rawState)
    \/ button.buttonPin = PIN_BUTTON /\ wasShortPress
    \/ button.buttonPin = PIN_BUTTON /\ wasLongPress

SpecDebounce == Init /\ [][NextDebounce]_vars

\* the main sketch: booted once, then loop() for as long as the explored
\* time lasts
BootMillis == 100
Payloads == {0, 4}
MainFrames == {<<>>, <<W1234, Zero, W5678, Zero>>}

LoopInputs ==
    [rawState : BOOLEAN, nfcOk : BOOLEAN, httpOk : BOOLEAN,
     httpLength : Payloads, outcome : HealthOutcomes, result : {ESP_OK},
     frame : MainFrames, busy : {0, LoopDelay + 50}, slack : Slacks]

\* an input is drawn only where the loop() consumes it
Consumed(in) ==
    LET entry == stateStartTime = millis
    IN  /\ in.nfcOk => currentState = STATE_READING_NFC
        /\ in.httpOk =>
               entry /\ currentState \in {STATE_FETCH_AUDIO, STATE_UPLOADING}
        /\ in.httpLength # 0 =>
               in.httpOk /\ currentState = STATE_FETCH_AUDIO
        /\ in.outcome # "ok" =>
               entry /\ currentState \in {STATE_PLAYING, STATE_RECORDING}
        /\ in.frame # <<>> =>
               /\ currentState = STATE_RECORDING
               /\ totalReads < ShortReads
        /\ in.busy # 0 => LoopBody(in).currentState # currentState

NextMain ==
    \/ \E which \in SetupFailures \cup {"ok"}, rawState \in BOOLEAN :
           setup(which, rawState, BootMillis)
    \/ \E in \in LoopInputs :
           /\ millis <= MaxMillis
           /\ Consumed(in)
           /\ loop(in)

SpecMain == Init /\ [][NextMain]_vars

\* the recording loops: a recording that has just started, fed with the
\* sizes a read of 512 bytes may return; a short read only at the start
ReadSizes == {0, 4, 256, 512}
SmallStart == 8

InitRecord ==
    /\ InitCtl
    /\ raw = Zero
    /\ decoder = "chain"
    /\ pcm = <<>>

startOfRecording(which) ==
    /\ sketch = "none"
    /\ sketch' = which
    /\ currentState' = STATE_RECORDING
    /\ previousState' = STATE_READING_NFC
    /\ recordingStartTime' = millis
    /\ recordingLength' = 0
    /\ recordedSamples' = 0
    /\ UNCHANGED <<ctlVars, benchVars, boardVars, currentAction, lastError,
                   stateStartTime, nfcReadTimeout, audioDataLength,
                   retryCount, visit, store, testVars>>

NextRecord ==
    \/ \E which \in {"esp32_voice_lte", "nfc_audio_test"} :
           startOfRecording(which)
    \/ \E n \in ReadSizes :
           /\ n = 4 => recordingLength < SmallStart
           /\ recordChunk(n)
    \/ \E n \in {0, TempBufBytes} : recordingCase(n)

SpecRecord == InitRecord /\ [][NextRecord]_vars

\* the test firmware: booted once, then loop() for as long as TestMillis
TestMillis == 12000
TestSlacks == {730}

TestInputs ==
    [rawState : BOOLEAN, nfcOk : BOOLEAN, outcome : HealthOutcomes,
     result : {ESP_OK, ESP_FAIL}, frame : MainFrames, slack : TestSlacks]

\* an input is drawn only where the loop() consumes it
TestConsumed(in) ==
    /\ in.nfcOk =>
           currentState = STATE_IDLE /\ millis - lastNFCCheck > NfcCheckMs
    /\ in.outcome # "ok" => currentState = STATE_READING_NFC
    /\ in.result # ESP_OK => currentState = STATE_PLAYING
    /\ in.frame # <<>> =>
           /\ currentState = STATE_RECORDING
           /\ totalReads < ShortReads

NextTest ==
    \/ \E which \in TestSetupFailures \cup {"ok"}, rawState \in BOOLEAN :
           testSetup(which, rawState, BootMillis)
    \/ \E in \in TestInputs :
           /\ millis <= TestMillis
           /\ TestConsumed(in)
           /\ testLoop(in)

SpecTest == Init /\ [][NextTest]_vars



(***************************************************************************)
(* Properties                                                              *)
(***************************************************************************)
Count(seq, fname) == Cardinality({i \in 1..Len(seq) : seq[i].f = fname})

IsStart == op.name \in {"startRecording", "startPlayback"}

\* a read in which the peripheral delivered data to a recording manager
DataRead ==
    /\ op.name = "readRecordedData"
    /\ pre.mode = AUDIO_MODE_RECORDING
    /\ op.result = ESP_OK
    /\ op.frame # <<>>

\* the automatic recovery ran in the last read
RestartAttempted == DataRead /\ Count(calls, "i2s_driver_uninstall") >= 1

\* C1: mode exclusivity.  At most one I2S driver is installed, also at
\* every point inside an operation; a start issued while a mode is active
\* first uninstalls that mode's driver; after startPlayback issued in
\* Recording no receive driver remains, and a read issued while no receive
\* driver is installed yields no data.
C1_ModeExclusivity ==
    /\ Cardinality(Installed(driver)) <= 1
    /\ peak <= 1
    /\ (IsStart /\ pre.mode # AUDIO_MODE_NONE) =>
           /\ calls # <<>>
           /\ calls[1] = Ev("i2s_driver_uninstall",
                            PortOf(variant, pre.mode), 0)
    /\ (op.name = "startPlayback" /\ pre.mode = AUDIO_MODE_RECORDING) =>
           \A p \in Ports : driver[p] # "rx"
    /\ (op.name = "readRecordedData"
        /\ \A p \in Ports : pre.drv[p] # "rx") =>
           ret = 0 /\ outBuf = <<>>

C1_Witness ==
    /\ variant = "two_port"
    /\ op.name = "startPlayback"
    /\ op.prev = "startRecording"
    /\ pre.mode = AUDIO_MODE_RECORDING
    /\ pre.drv[I2S_NUM_0] = "rx"
    /\ currentMode = AUDIO_MODE_PLAYBACK
    /\ driver = [NoDriver EXCEPT ![I2S_NUM_1] = "tx"]

\* the start call of the last operation was made to fail by the driver
DriverFailed ==
    \/ op.outcome \in {"install_fails", "set_pin_fails"}
    \/ op.name = "startRecording" /\ op.outcome = "start_fails"

\* C2: a start whose i2s_driver_install, i2s_set_pin or (recording)
\* i2s_start fails returns false and leaves the manager in AUDIO_MODE_NONE
\* with no driver installed, whatever mode it was called in.
C2_FailedStartLeavesIdle ==
    (IsStart /\ DriverFailed) =>
        /\ ret = FALSE
        /\ currentMode = AUDIO_MODE_NONE
        /\ Installed(driver) = {}

C2_Witness ==
    /\ op.name = "startRecording"
    /\ op.outcome = "start_fails"
    /\ pre.mode = AUDIO_MODE_PLAYBACK
    /\ ret = FALSE
    /\ Count(calls, "i2s_driver_install") = 1

\* C3: read/write mode gating.  readRecordedData outside Recording and
\* writePlaybackData outside Playback return 0, make no driver call and
\* leave mode, sample rate, drivers and the health counters as they were.
C3_ModeGating ==
    /\ (op.name = "readRecordedData" /\ pre.mode # AUDIO_MODE_RECORDING) =>
           ret = 0 /\ Snapshot = pre /\ calls = <<>> /\ outBuf = <<>>
    /\ (op.name = "writePlaybackData" /\ pre.mode # AUDIO_MODE_PLAYBACK) =>
           ret = 0 /\ Snapshot = pre /\ calls = <<>>

C3_Witness ==
    /\ op.name = "writePlaybackData"
    /\ op.length > 0
    /\ pre.mode = AUDIO_MODE_RECORDING
    /\ pre.total > 0
    /\ ret = 0

\* C4 as stated: after stopRecording or stopPlayback the manager is in
\* AUDIO_MODE_NONE with no driver installed, whatever the mode before.
C4_StopAlwaysIdle ==
    op.name \in {"stopRecording", "stopPlayback"} =>
        currentMode = AUDIO_MODE_NONE /\ Installed(driver) = {}

StopsMode(name) ==
    IF name = "stopRecording" THEN AUDIO_MODE_RECORDING
    ELSE AUDIO_MODE_PLAYBACK

\* C4 amended: a stop called in the mode it stops, or in AUDIO_MODE_NONE,
\* leaves the manager in AUDIO_MODE_NONE with no driver installed; a stop
\* called in the other mode leaves mode and drivers unchanged.
C4_StopOwnMode ==
    op.name \in {"stopRecording", "stopPlayback"} =>
        IF pre.mode \in {StopsMode(op.name), AUDIO_MODE_NONE}
        THEN currentMode = AUDIO_MODE_NONE /\ Installed(driver) = {}
        ELSE currentMode = pre.mode /\ driver = pre.drv
             /\ Cardinality(Installed(driver)) = 1

C4_Witness ==
    /\ op.name = "stopRecording"
    /\ pre.mode = AUDIO_MODE_RECORDING
    /\ Installed(pre.drv) # {}
    /\ currentMode = AUDIO_MODE_NONE

\* C5: stop is idempotent.  A stop that directly follows the same stop
\* changes nothing, and the two calls together uninstall at most one driver.
C5_StopIdempotent ==
    [][\A name \in {"stopRecording", "stopPlayback"} :
          (op.name = name /\ op'.name = name) =>
              /\ Snapshot' = Snapshot
              /\ Count(calls, "i2s_driver_uninstall")
                   + Count(calls', "i2s_driver_uninstall") <= 1]_vars

C5_Witness ==
    /\ op.name = "stopPlayback"
    /\ op.prev = "stopPlayback"
    /\ pre.mode = AUDIO_MODE_NONE
    /\ pre.rate = AltRate
    /\ calls = <<>>

\* length of the run of all-zero reads of this session, the last read
\* included
RunNow == IF TrueAllZero(op.frame) THEN pre.run + 1 ELSE 0

\* C6 as stated: within one recording session no automatic restart happens
\* while the run of consecutive all-zero reads is shorter than 50, and the
\* read that makes the run exactly 50 invokes the restart cycle exactly once.
C6_RestartOnlyAtFifty ==
    DataRead =>
        /\ RunNow < HardThreshold =>
               Count(calls, "i2s_driver_uninstall") = 0
        /\ RunNow = HardThreshold =>
               /\ Count(calls, "i2s_driver_uninstall") = 1
               /\ Count(calls, "i2s_driver_install") = 1

\* C7 as stated: right after the restart attempt of the 50th consecutive
\* zero read consecutiveZeroReads is 0, whether the restart succeeded or not.
C7_StreakClearedAfterRestart ==
    RestartAttempted => consecutiveZeroReads = 0

\* the read was classified non-zero: a non-zero word among the first ten
ClassifiedNonZero ==
    \E i \in 1..Min(Len(op.frame), ClassifyWindow) : op.frame[i] # Zero

\* C8: streak reset.  After a read with data that is classified non-zero,
\* consecutiveZeroReads is 0, however long the run of zero reads before it.
C8_StreakReset ==
    (DataRead /\ ClassifiedNonZero) => consecutiveZeroReads = 0

C8_Witness ==
    /\ DataRead
    /\ ClassifiedNonZero
    /\ pre.consec > HardThreshold
    /\ consecutiveZeroReads = 0

\* C9 as stated: the health counters belong to one session; after a
\* successful startRecording that follows a stop they are all 0.
C9_CountersPerSession ==
    (op.name = "startRecording" /\ ret = TRUE
     /\ pre.mode = AUDIO_MODE_NONE) =>
        /\ consecutiveZeroReads = 0
        /\ totalReads = 0
        /\ zeroReads = 0

SlotOf(i) == IF variant = "shared_port" THEN i ELSE 2 * i - 1

\* C11 as stated: a raw word 0x00000000 decodes to 0 and a raw word
\* 0x00000001 decodes to 1, on every read, whatever was read before.
C11_DegenerateWords ==
    DataRead =>
        \A i \in 1..Len(outBuf) :
            /\ op.frame[SlotOf(i)] = Zero => outBuf[i] = 0
            /\ op.frame[SlotOf(i)] = One => outBuf[i] = 1

\* C11 amended: 0x00000000 decodes to 0 in both builds; 0x00000001 decodes
\* to the same value on every read, whatever was read before and whether
\* or not the one-time warning was given: 1 (its bit 0) in the shared-port
\* build, 0 in the two-port build.
C11_DegenerateWordsPerBuild ==
    DataRead =>
        \A i \in 1..Len(outBuf) :
            /\ op.frame[SlotOf(i)] = Zero => outBuf[i] = 0
            /\ op.frame[SlotOf(i)] = One =>
                   outBuf[i] = IF variant = "shared_port" THEN 1 ELSE 0

C11_Witness ==
    /\ variant = "shared_port"
    /\ DataRead
    /\ pre.stuck
    /\ pre.total > 1
    /\ op.frame = <<One, One>>
    /\ outBuf = <<1, 1>>

\* the samples of the last read are those of the left (even-indexed, from
\* 0) slots, in order
LeftSlotsOnly ==
    /\ Len(outBuf) = (Len(op.frame) + 1) \div 2
    /\ \A i \in 1..Len(outBuf) :
           outBuf[i] = Decode(DecoderOf(variant), op.frame[2 * i - 1])
    /\ ret = 2 * ((Len(op.frame) + 1) \div 2)

\* every slot of the last read gave one sample, in order
EverySlot ==
    /\ Len(outBuf) = Len(op.frame)
    /\ \A i \in 1..Len(outBuf) :
           outBuf[i] = Decode(DecoderOf(variant), op.frame[i])
    /\ ret = 2 * Len(op.frame)

\* C12 as stated: a read of n slots outputs one sample per even-indexed
\* slot, none for an odd-indexed slot, and returns 2*ceil(n/2) bytes.
C12_LeftChannelOnly == DataRead => LeftSlotsOnly

\* C12 amended: that holds in the two-port build (stereo frames); the
\* shared-port build (left-only channel format) outputs one sample for
\* every slot and returns 2*n bytes.
C12_LeftChannelPerBuild ==
    DataRead => IF variant = "two_port" THEN LeftSlotsOnly ELSE EverySlot

C12_Witness ==
    /\ variant = "two_port"
    /\ DataRead
    /\ op.frame = <<W1234, Zero, W5678, Zero>>
    /\ Len(outBuf) = 2
    /\ ret = 4

\* two's complement reading of a 16-bit and of an 18-bit field
Signed16(x) == IF x >= 32768 THEN x - 65536 ELSE x
Signed18(x) == IF x >= 131072 THEN x - 262144 ELSE x

\* the reference chain of C13 on the word <<hi, lo>>
RefChain(w) ==
    LET s1 == Signed16(w[1])
        s2 == Signed18((w[1] * 4 + w[2] \div 16384) % 262144) \div 4
        s3 == Signed18(((w[1] % 4) * 65536 + w[2]) % 262144) \div 4
        s == IF s1 # 0 THEN s1 ELSE IF s2 # 0 THEN s2 ELSE s3
    IN  IF s > 32767 THEN 32767 ELSE IF s < -32768 THEN -32768 ELSE s

\* C13 as stated: every raw word other than 0 and 1 decodes to the result
\* of the reference chain.
C13_ChainEverywhere ==
    (pcm # <<>> /\ raw \notin {Zero, One}) => pcm[1] = RefChain(raw)

\* C13 amended: that holds in the shared-port build; the two-port build
\* writes bits 8..23 of the word read as a signed 16-bit value, and the
\* first build only the first step of the chain (the upper 16 bits).
C13_ChainPerBuild ==
    (pcm # <<>> /\ raw \notin {Zero, One}) =>
        pcm[1] = CASE decoder = "chain" -> RefChain(raw)
                   [] decoder = "shift8" ->
                          Signed16((raw[1] % 256) * 256 + raw[2] \div 256)
                   [] decoder = "upper16" -> Signed16(raw[1])

C13_Witness ==
    /\ decoder = "chain"
    /\ raw = <<0, 65535>>
    /\ pcm = <<16383>>

\* the last call made a waiting step: a delay, or a driver call that may
\* block
Waited == \E i \in 1..Len(calls) : calls[i].wait # 0

\* the last read was the one that ran the automatic recovery
TriggeredRestart ==
    /\ DataRead
    /\ \A i \in 1..Min(Len(op.frame), ClassifyWindow) : op.frame[i] = Zero
    /\ pre.consec + 1 = HardThreshold

\* C14 as stated: no call of readRecordedData makes a waiting step.
C14_ReadNeverWaits ==
    op.name = "readRecordedData" => ~Waited

\* C14 amended: a call of readRecordedData makes no waiting step, and
\* returns 0 at once when the peripheral has no data, except the call that
\* counts the 50th consecutive zero read: that one runs the I2S restart
\* with its delay(100), its 100 ms initial read and its delay(200).
C14_ReadWaitsOnlyInRestart ==
    op.name = "readRecordedData" =>
        /\ ~TriggeredRestart => ~Waited
        /\ (op.frame = <<>> \/ op.result # ESP_OK) => ret = 0 /\ ~Waited

C14_Witness ==
    /\ op.name = "readRecordedData"
    /\ pre.mode = AUDIO_MODE_RECORDING
    /\ pre.consec = HardThreshold - 1
    /\ op.frame = <<>>
    /\ ret = 0
    /\ Len(calls) = 1

(***************************************************************************)
(* Main state machine                                                      *)
(***************************************************************************)
Documented ==
    {<<STATE_IDLE, STATE_READING_NFC>>,
     <<STATE_READING_NFC, STATE_FETCH_AUDIO>>,
     <<STATE_READING_NFC, STATE_RECORDING>>,
     <<STATE_READING_NFC, STATE_IDLE>>,
     <<STATE_FETCH_AUDIO, STATE_PLAYING>>,
     <<STATE_FETCH_AUDIO, STATE_IDLE>>,
     <<STATE_PLAYING, STATE_IDLE>>,
     <<STATE_RECORDING, STATE_UPLOADING>>,
     <<STATE_RECORDING, STATE_IDLE>>,
     <<STATE_UPLOADING, STATE_IDLE>>}

\* C15: once setup has succeeded, every step of the main sketch either keeps
\* currentState or takes one of the documented transitions; in particular
\* it never goes back to STATE_INIT and never goes to STATE_ERROR.
C15_DocumentedTransitions ==
    [][currentState \notin {STATE_INIT, STATE_ERROR} =>
           \/ currentState' = currentState
           \/ <<currentState, currentState'>> \in Documented]_vars

\* a recording visit reached over IDLE and READING_NFC has ended in UPLOADING
C15_Witness ==
    /\ op.name = "loop"
    /\ previousState = STATE_RECORDING
    /\ currentState = STATE_UPLOADING
    /\ currentAction = ACTION_RECORD

\* the cases of loop() whose whole body, every transition included, sits in
\* the entry block guarded by stateStartTime == now
EntryOnly == {STATE_FETCH_AUDIO, STATE_PLAYING, STATE_UPLOADING}

\* the visit is past its entry time: now can no longer equal stateStartTime
EntryMissed == currentState \in EntryOnly /\ stateStartTime < millis

\* once the entry is missed, no step of the sketch ends the visit
EntryMissedIsFinal == [][EntryMissed => EntryMissed']_vars

\* C16: recoverability, in the form a finite run refutes: the main state
\* machine is never in FETCH_AUDIO, PLAYING or UPLOADING with the entry block
\* of the visit missed, a state that no later loop() can leave, so that every
\* visit to READING_NFC, FETCH_AUDIO, PLAYING, RECORDING and UPLOADING can
\* still end in STATE_IDLE.
C16_AlwaysRecoverable == ~EntryMissed

Attempts == visit.gets + visit.posts

\* C17: in a visit to FETCH_AUDIO or UPLOADING the request is attempted: a
\* loop() that has run in the visit has made an attempt, the failed attempts
\* are counted by retryCount, and there are never more than HTTP_RETRY_COUNT
\* of them before the machine leaves for IDLE with retryCount 0.
C17_RetryLimit ==
    /\ currentState \in {STATE_FETCH_AUDIO, STATE_UPLOADING} =>
           /\ visit.loops >= 1 => Attempts >= 1
           /\ retryCount = Attempts
           /\ Attempts < HTTP_RETRY_COUNT
    /\ currentState = STATE_IDLE => retryCount = 0

(***************************************************************************)
(* Recording buffer                                                        *)
(***************************************************************************)
\* the size of the audio buffer in the unit the sketch counts in: bytes in
\* esp32_voice_lte.ino, samples in the test firmware
BufferLimit ==
    IF sketch = "nfc_audio_test" THEN MAX_AUDIO_SAMPLES ELSE audioBufferSize

\* C18: during recording, whatever sizes the reads return, the recorded
\* length never exceeds the size of the audio buffer, no sample is stored
\* at or beyond the end of the buffer, and the recording stops when the
\* buffer is full: the main sketch leaves RECORDING in the iteration that
\* fills the buffer, the test firmware in the one whose chunk no longer
\* fits.
C18_NoOverflow ==
    /\ recordingLength <= audioBufferSize
    /\ recordedSamples <= MAX_AUDIO_SAMPLES
    /\ store.top <= BufferLimit
    /\ store.n <= store.asked
    /\ sketch = "esp32_voice_lte" /\ currentState = STATE_RECORDING =>
           recordingLength < audioBufferSize
    /\ store.refused => currentState # STATE_RECORDING

\* the chunk that reaches the end of the buffer is cut short and the
\* recording stops
C18_Witness ==
    /\ sketch = "esp32_voice_lte"
    /\ recordingLength = audioBufferSize
    /\ store.top = audioBufferSize
    /\ 0 < store.n /\ store.n < store.asked
    /\ currentState = STATE_UPLOADING

(***************************************************************************)
(* Button                                                                  *)
(***************************************************************************)
\* C19: a debounced press that ends before longPressThreshold has raised
\* the short-press event at its release and no long-press event; a press
\* held for at least longPressThreshold has raised the long-press event and
\* no short-press event; no press has raised both.
C19_Classification ==
    /\ press.done /\ press.duration < LONG_PRESS_MS =>
           press.short /\ ~press.long
    /\ press.begun /\ press.duration >= LONG_PRESS_MS =>
           press.long /\ ~press.short
    /\ ~(press.short /\ press.long)

\* C20: update() raises the long-press event at most once in one hold.
C20_LongPressOnce == press.raises <= 1

\* the hold goes on after its long-press event: the event has been read
\* and further polls have found the button still down
C20_Witness ==
    /\ press.begun /\ ~press.done
    /\ press.raises = 1
    /\ press.after >= 2
    /\ press.duration > LONG_PRESS_MS
    /\ button.currentState
    /\ ~button.longPressFlag

(***************************************************************************)
(* C21  Debouncing: the debounced button state changes only to the level   *)
(* the raw input was read at, and only when the raw input has been read    *)
(* at that level, and at no other, for more than debounceDelay ms; the     *)
(* short-press and long-press events are raised only for a press whose     *)
(* raw level had been read as pressed for more than debounceDelay ms when  *)
(* the debounced state became pressed, so a raw pulse shorter than         *)
(* debounceDelay produces no press and no event.                           *)
(***************************************************************************)
Stayed == millis - steady.since

C21_Debounced ==
    [][/\ button'.currentState # button.currentState =>
              /\ button'.currentState = steady'.level
              /\ Stayed' > button'.debounceDelay
       /\ \/ button'.shortPressFlag /\ ~button.shortPressFlag
          \/ button'.longPressFlag /\ ~button.longPressFlag
          => steady'.pressed > button'.debounceDelay]_vars

(***************************************************************************)
(* C22  currentSampleRate is the rate passed to the most recent successful *)
(* startRecording / startPlayback: a start that returns true leaves the    *)
(* rate it was passed in currentSampleRate, and every other call but       *)
(* init (stop calls, failed starts, reads, writes) leaves                  *)
(* currentSampleRate as it was.                                            *)
(***************************************************************************)
StartDone ==
    /\ op.name \in {"startPlayback", "startRecording"}
    /\ ret = TRUE

C22_SampleRateFrame ==
    [][IF StartDone'
       THEN currentSampleRate' = op'.rate
       ELSE op'.name # "init" => currentSampleRate' = currentSampleRate]_vars

\* a start at another rate has failed while a mode started at AltRate was
\* active
C22_Witness ==
    /\ op.name \in {"startPlayback", "startRecording"}
    /\ ret = FALSE
    /\ pre.mode # AUDIO_MODE_NONE
    /\ op.rate = SAMPLE_RATE
    /\ currentSampleRate = AltRate

(***************************************************************************)
(* C23  When the automatic restart succeeds, the manager is in Recording   *)
(* mode afterwards, currentSampleRate is what it was before the restart,   *)
(* and during the restart the driver of the recording port was             *)
(* uninstalled exactly once and installed exactly once (and is installed   *)
(* at the end).                                                            *)
(***************************************************************************)
\* the success branch of the recovery is the one that clears the streak
RestartSucceeded == RestartAttempted /\ consecutiveZeroReads = 0

OnRecordingPort(fname) ==
    {i \in 1..Len(calls) :
        /\ calls[i].f = fname
        /\ calls[i].port = PortOf(variant, AUDIO_MODE_RECORDING)}

C23_RestartSuccess ==
    RestartSucceeded =>
        /\ currentMode = AUDIO_MODE_RECORDING
        /\ currentSampleRate = pre.rate
        /\ Count(calls, "i2s_driver_uninstall") = 1
        /\ Count(calls, "i2s_driver_install") = 1
        /\ Cardinality(OnRecordingPort("i2s_driver_uninstall")) = 1
        /\ Cardinality(OnRecordingPort("i2s_driver_install")) = 1
        /\ Installed(driver) = {PortOf(variant, AUDIO_MODE_RECORDING)}

C23_Witness == RestartSucceeded /\ pre.consec = HardThreshold - 1

(***************************************************************************)
(* C24  In an unbroken run of all-zero reads within one session the soft   *)
(* warning is emitted at the 10th read of the run and at no other, the     *)
(* hard warning at the 50th read of the run and at no other, and the read  *)
(* that emits the hard warning also attempts the recovery and so reports   *)
(* its outcome once.                                                       *)
(***************************************************************************)
\* the warning the last read emitted
Warned ==
    IF DataRead THEN Warning(pre.consec, allZerosThisRead(op.frame))
    ELSE "none"

\* the last read was the n-th of an unbroken run of all-zero reads of the
\* session
NthZeroRead(n) == DataRead /\ TrueAllZero(op.frame) /\ pre.run + 1 = n

C24_WarningsOnce ==
    /\ Warned = "soft" <=> NthZeroRead(SoftThreshold)
    /\ Warned = "hard" <=> NthZeroRead(HardThreshold)
    /\ Warned = "hard" => RestartAttempted

(***************************************************************************)
(* C25  In the shift-by-8 decoding variant the sample written is the       *)
(* arithmetic right shift by 8 of the signed 32-bit raw word, saturated to *)
(* the signed 16-bit range: 32767 when the shifted value is above it,      *)
(* -32768 when it is below, never a wrapped value.                         *)
(***************************************************************************)
\* (int32_t)raw >> 8 as a mathematical integer
SignedShift8(w) == Signed16(w[1]) * 256 + (w[2] \div 256)

Saturated16(x) ==
    IF x > 32767 THEN 32767 ELSE IF x < -32768 THEN -32768 ELSE x

C25_Shift8Saturates ==
    decoder = "shift8" /\ pcm # <<>>
        => pcm[1] = Saturated16(SignedShift8(raw))

(***************************************************************************)
(* C26  NFC read timeout: the main state machine leaves READING_NFC for    *)
(* IDLE only in a loop() that starts at least NFC_READ_TIMEOUT_MS after    *)
(* the state was entered, and it then sets lastError = ERROR_NFC_READ;     *)
(* until then it stays in READING_NFC while no tag is read.                *)
(***************************************************************************)
C26_NfcTimeout ==
    [][currentState = STATE_READING_NFC /\ currentState' = STATE_IDLE =>
           /\ millis - stateStartTime >= NFC_READ_TIMEOUT_MS
           /\ lastError' = ERROR_NFC_READ]_vars

(***************************************************************************)
(* C27  State-entry actions run exactly once per visit: once a loop() has  *)
(* processed FETCH_AUDIO, PLAYING, RECORDING or UPLOADING and the machine  *)
(* is still in that state, the state's entry block has run exactly once    *)
(* in the visit; and whenever readRecordedData was issued in a visit of    *)
(* RECORDING, startRecording was called in that visit.                     *)
(***************************************************************************)
EntryStates ==
    {STATE_FETCH_AUDIO, STATE_PLAYING, STATE_RECORDING, STATE_UPLOADING}

C27_EntryOncePerVisit ==
    /\ currentState \in EntryStates /\ visit.loops >= 1
           => visit.entries = 1
    /\ currentState = STATE_RECORDING /\ visit.reads >= 1
           => visit.starts >= 1

(***************************************************************************)
(* C28  Whenever a sketch's state machine is in a state other than PLAYING *)
(* or RECORDING at the start of a loop iteration, the audio manager is     *)
(* inactive (AUDIO_MODE_NONE).                                             *)
(***************************************************************************)
C28_AudioIdleOutsideAudioStates ==
    sketch # "none" /\ currentState \notin {STATE_PLAYING, STATE_RECORDING}
        => currentMode = AUDIO_MODE_NONE


(***************************************************************************)
(* What a recording loop appends to audioBuffer                            *)
(***************************************************************************)
\* a loop() of esp32_voice_lte.ino in STATE_RECORDING whose read returned
\* bytes that all fit in what is left of the buffer
ChunkFits ==
    /\ sketch = "esp32_voice_lte"
    /\ currentState = STATE_RECORDING
    /\ recordingLength < audioBufferSize
    /\ store'.ret > 0
    /\ recordingLength + store'.ret <= audioBufferSize

ShutdownCalls ==
    {i \in DOMAIN calls :
        /\ calls[i].f = "i2s_driver_uninstall"
        /\ \A j \in 1..(i - 1) : calls[j].f # "i2s_driver_install"}

\* C30: in the two-port build the mode tells which driver is installed:
\* NONE iff no driver, Recording iff exactly the I2S_NUM_0 driver, Playback
\* iff exactly the I2S_NUM_1 driver; so shutdownI2S always uninstalls the
\* port that is installed.
C30_ModeDriverConsistency ==
    variant = "two_port" =>
        /\ currentMode = AUDIO_MODE_NONE <=> Installed(driver) = {}
        /\ currentMode = AUDIO_MODE_RECORDING <=>
               Installed(driver) = {I2S_NUM_0}
        /\ currentMode = AUDIO_MODE_PLAYBACK <=>
               Installed(driver) = {I2S_NUM_1}
        /\ \A i \in ShutdownCalls : Installed(pre.drv) = {calls[i].port}

\* playback on the second port was stopped: its driver is the one removed
C30_Witness ==
    /\ variant = "two_port"
    /\ op.name = "stopPlayback"
    /\ pre.mode = AUDIO_MODE_PLAYBACK
    /\ pre.drv = [NoDriver EXCEPT ![I2S_NUM_1] = "tx"]
    /\ calls = <<Ev("i2s_zero_dma_buffer", I2S_NUM_1, 0),
                 Ev("i2s_driver_uninstall", I2S_NUM_1, 0)>>
    /\ Installed(driver) = {}
    /\ currentMode = AUDIO_MODE_NONE

(***************************************************************************)
(* C31  The restart trigger is re-armed after every restart attempt: after *)
(* an automatic restart attempt, successful or failed, a later run of 50   *)
(* consecutive all-zero reads, in the same or a later recording session,   *)
(* triggers a new restart attempt.                                         *)
(***************************************************************************)
\* the last read came after a restart attempt: where every read with data
\* is all-zero the streak equals the number of reads until the 50th, which
\* makes the first attempt
AfterAttempt == DataRead /\ pre.total >= HardThreshold

C31_Rearmed ==
    (AfterAttempt /\ NthZeroRead(HardThreshold)) => RestartAttempted

(***************************************************************************)
(* C32  After an automatic restart that fails, the controller is in        *)
(* AUDIO_MODE_NONE with no driver installed; the failing readRecordedData  *)
(* call and every later one report no error, and every later               *)
(* readRecordedData returns 0 until the caller itself calls startRecording *)
(* successfully.                                                           *)
(***************************************************************************)
\* the recovery ran in the last read and a driver call of it failed
RestartFailed == RestartAttempted /\ op.outcome # "ok"

\* the failing read leaves the manager idle and returns the bytes of its
\* samples like any read with data; from then on a read returns 0 and
\* changes neither mode nor driver, and only a successful startRecording
\* brings the Recording mode back
C32_FailedRestartLeavesIdle ==
    [][/\ RestartFailed' =>
              /\ currentMode' = AUDIO_MODE_NONE
              /\ Installed(driver') = {}
              /\ ret' = 2 * Len(outBuf')
       /\ (currentMode # AUDIO_MODE_RECORDING
              /\ op'.name = "readRecordedData") =>
              /\ ret' = 0
              /\ currentMode' = currentMode
              /\ driver' = driver
       /\ (currentMode # AUDIO_MODE_RECORDING
              /\ currentMode' = AUDIO_MODE_RECORDING) =>
              /\ op'.name = "startRecording"
              /\ ret' = TRUE]_vars

\* a read made after the failed restart: it returned 0 and the manager is
\* still idle, its streak still at the threshold
C32_Witness ==
    /\ op.name = "readRecordedData"
    /\ op.prev = "readRecordedData"
    /\ op.frame # <<>>
    /\ pre.mode = AUDIO_MODE_NONE
    /\ pre.consec = HardThreshold
    /\ ret = 0
    /\ currentMode = AUDIO_MODE_NONE
    /\ Installed(driver) = {}

(***************************************************************************)
(* C33  A read is counted as a zero observation (incrementing              *)
(* consecutiveZeroReads and zeroReads) if and only if every raw word       *)
(* returned by that read is 0x00000000, whatever the number of words in    *)
(* the read (1 to 256).                                                    *)
(***************************************************************************)
\* the last read was counted as a zero observation
CountedZero ==
    /\ zeroReads = pre.zero + 1
    /\ consecutiveZeroReads = pre.consec + 1 \/ RestartSucceeded

C33_ZeroIffEveryWordZero ==
    DataRead => (CountedZero <=> TrueAllZero(op.frame))

(***************************************************************************)
(* C34  Reads that deliver no data do not touch the health monitor: a      *)
(* readRecordedData call in which the peripheral read fails or returns 0   *)
(* bytes leaves consecutiveZeroReads, totalReads and zeroReads unchanged   *)
(* and never triggers a restart.                                           *)
(***************************************************************************)
\* the last call read the peripheral and got nothing
EmptyRead ==
    /\ op.name = "readRecordedData"
    /\ pre.mode = AUDIO_MODE_RECORDING
    /\ op.result # ESP_OK \/ op.frame = <<>>

C34_EmptyReadsNotCounted ==
    EmptyRead =>
        /\ consecutiveZeroReads = pre.consec
        /\ totalReads = pre.total
        /\ zeroReads = pre.zero
        /\ Count(calls, "i2s_driver_uninstall") = 0
        /\ Count(calls, "i2s_driver_install") = 0
        /\ currentMode = AUDIO_MODE_RECORDING
        /\ ret = 0

\* an empty read where one more zero observation would start the recovery
C34_Witness ==
    /\ EmptyRead
    /\ pre.consec = HardThreshold - 1
    /\ consecutiveZeroReads = HardThreshold - 1
    /\ calls = <<Ev("i2s_read", PortOf(variant, AUDIO_MODE_RECORDING),
                    ReadTimeout)>>

(***************************************************************************)
(* C35  The stuck-microphone signature is not treated as data loss: a read *)
(* whose raw words are all 0x00000001 is classified as a non-zero          *)
(* observation, resets consecutiveZeroReads to 0, and no stream of such    *)
(* reads ever triggers the automatic restart.                              *)
(***************************************************************************)
\* the last read delivered nothing but the word 0x00000001
StuckRead == DataRead /\ \A i \in 1..Len(op.frame) : op.frame[i] = One

C35_StuckIsNotDataLoss ==
    StuckRead =>
        /\ consecutiveZeroReads = 0
        /\ zeroReads = pre.zero
        /\ totalReads = pre.total + 1
        /\ ~RestartAttempted
        /\ currentMode = AUDIO_MODE_RECORDING
        /\ driver = pre.drv

\* a stream of stuck reads longer than the restart threshold, no other
\* read before it
C35_Witness ==
    /\ StuckRead
    /\ totalReads > HardThreshold
    /\ zeroReads = 0
    /\ consecutiveZeroReads = 0
    /\ currentMode = AUDIO_MODE_RECORDING

(***************************************************************************)
(* C36  Output bound: for every maxLength and every amount of data the     *)
(* peripheral returns, readRecordedData writes at most maxLength bytes     *)
(* into the caller's buffer and its return value is at most maxLength and  *)
(* even.                                                                   *)
(***************************************************************************)
C36_OutputBound ==
    op.name = "readRecordedData" =>
        /\ 2 * Len(outBuf) <= op.maxLength
        /\ ret \in 0..op.maxLength
        /\ ret % 2 = 0

\* the peripheral filled the whole request and the read returned exactly
\* maxLength bytes
C36_Witness ==
    /\ DataRead
    /\ Len(op.frame) = samplesToRead(op.maxLength)
    /\ 2 * Len(outBuf) = op.maxLength
    /\ ret = op.maxLength


====
